---- MODULE Spec2Model ----
(***************************************************************************)
(* Session lifecycle coordinator of augment-agent-dashboard: the session   *)
(* state machine (state_machine.py), the file-backed session store         *)
(* (store.py), the hooks (hooks/*.py) and the continuation engine of the   *)
(* dashboard server (server.py).                                           *)
(***************************************************************************)
EXTENDS Integers, Sequences, FiniteSets, TLC

VARIABLES
    sm,         \* harness: a session, an event and the TransitionResult; or the calls made
    fs,         \* the store directory: the canonical sessions file and its .tmp file
    lock,       \* the advisory lock on the lock file: the mode each caller holds
    cpc,        \* callers: position inside the method, hook or handler being run
    cloc,       \* callers: locals of the method, hook or handler being run
    now,        \* the wall clock (datetime.now), in half minutes
    store,      \* the sessions as _read_sessions returns them: session id -> session
    config,     \* the dashboard configuration file as load_config returns it
    spawned     \* promoted queued messages handed to the agent: content -> number of spawns

vars == <<sm, fs, lock, cpc, cloc, now, store, config, spawned>>


(***************************************************************************)
(* state_machine.py                                                        *)
(***************************************************************************)

\* SessionState: the enum values.
IDLE == "idle"
ACTIVE == "active"
TURN_COMPLETE == "turn_complete"
REVIEW_PENDING == "review_pending"
UNDER_REVIEW == "under_review"
READY_FOR_LOOP == "ready_for_loop"
LOOP_PROMPTING == "loop_prompting"
ERROR == "error"

SessionState ==
    {IDLE, ACTIVE, TURN_COMPLETE, REVIEW_PENDING, UNDER_REVIEW, READY_FOR_LOOP,
     LOOP_PROMPTING, ERROR}

\* SessionState.is_busy
is_busy(state) == state \in {ACTIVE, UNDER_REVIEW, LOOP_PROMPTING}

\* SessionState.to_simple_status
to_simple_status(state) ==
    IF is_busy(state) THEN "active"
    ELSE IF state = ERROR THEN "stopped"
    ELSE "idle"

\* from_state with no case for the Error state.
from_state_without_stopped(state) ==
    IF is_busy(state) THEN "active" ELSE "idle"

\* SessionStatus.from_state (models.py)
from_state(state) ==
    IF is_busy(state) THEN "active"
    ELSE IF state = ERROR THEN "stopped"
    ELSE "idle"

\* The condition functions, by name.
files_changed_and_review_enabled(session) ==
    (session.files_changed # <<>>) /\ session.review_enabled

\* no_review_needed asking for both: no changes and review disabled.
no_review_needed_both(session) ==
    (session.files_changed = <<>>) /\ ~session.review_enabled

no_review_needed(session) ==
    (session.files_changed = <<>>) \/ ~session.review_enabled

review_satisfied(session) ==
    IF session.review_iteration >= session.max_review_iterations THEN TRUE
    ELSE session.review_satisfied

review_not_satisfied(session) == ~review_satisfied(session)

loop_enabled(session) == session.loop_enabled

loop_disabled(session) == ~session.loop_enabled

\* in_review_cycle that also asks for review_enabled.
in_review_cycle_when_enabled(session) ==
    session.in_review_cycle /\ session.review_enabled

in_review_cycle(session) == session.in_review_cycle

\* The first turn_end entry with no guard.
not_in_review_cycle_unguarded(session) == TRUE

not_in_review_cycle(session) == ~session.in_review_cycle

\* transition.condition(session), for the condition named in a table entry.
Condition(name, session) ==
    CASE name = "files_changed_and_review_enabled" -> files_changed_and_review_enabled(session)
      [] name = "no_review_needed" -> no_review_needed(session)
      [] name = "review_satisfied" -> review_satisfied(session)
      [] name = "review_not_satisfied" -> review_not_satisfied(session)
      [] name = "loop_enabled" -> loop_enabled(session)
      [] name = "loop_disabled" -> loop_disabled(session)
      [] name = "in_review_cycle" -> in_review_cycle(session)
      [] name = "not_in_review_cycle" -> not_in_review_cycle(session)

Transition(from, event, to, cond) ==
    [from_state |-> from, event |-> event, to_state |-> to, condition |-> cond]

\* SessionStateMachine._default_transitions, in declaration order;
\* condition "none" is condition=None.
default_transitions ==
    << Transition(IDLE, "session_start", ACTIVE, "none"),
       Transition(ACTIVE, "turn_end", TURN_COMPLETE, "not_in_review_cycle"),
       Transition(ACTIVE, "turn_end", TURN_COMPLETE, "in_review_cycle"),
       Transition(TURN_COMPLETE, "evaluate", REVIEW_PENDING, "files_changed_and_review_enabled"),
       Transition(TURN_COMPLETE, "evaluate", READY_FOR_LOOP, "no_review_needed"),
       Transition(REVIEW_PENDING, "spawn_reviewer", UNDER_REVIEW, "none"),
       Transition(UNDER_REVIEW, "feedback_sent", ACTIVE, "none"),
       Transition(TURN_COMPLETE, "check_review", READY_FOR_LOOP, "review_satisfied"),
       Transition(TURN_COMPLETE, "check_review", REVIEW_PENDING, "review_not_satisfied"),
       Transition(READY_FOR_LOOP, "evaluate", LOOP_PROMPTING, "loop_enabled"),
       Transition(READY_FOR_LOOP, "evaluate", IDLE, "loop_disabled"),
       Transition(LOOP_PROMPTING, "prompt_sent", ACTIVE, "none"),
       Transition(ACTIVE, "error", ERROR, "none"),
       Transition(UNDER_REVIEW, "error", ERROR, "none"),
       Transition(LOOP_PROMPTING, "error", ERROR, "none"),
       Transition(ERROR, "reset", IDLE, "none"),
       Transition(TURN_COMPLETE, "force_idle", IDLE, "none"),
       Transition(REVIEW_PENDING, "force_idle", IDLE, "none"),
       Transition(READY_FOR_LOOP, "force_idle", IDLE, "none") >>

\* AgentSession.state setter: the state and the legacy status move together.
set_state(session, value) ==
    [session EXCEPT !.state = value, !.status = from_state(value)]

\* One test of the scan of process_event: does table entry i apply?
EntryAppliesIgnoringGuard(i, session, event) ==
    LET t == default_transitions[i] IN
    /\ t.from_state = session.state
    /\ t.event = event

\* The table without its reset entry.
EntryAppliesExceptReset(i, session, event) ==
    LET t == default_transitions[i] IN
    /\ t.from_state = session.state
    /\ t.event = event
    /\ t.event # "reset"
    /\ (t.condition # "none" => Condition(t.condition, session))

EntryApplies(i, session, event) ==
    LET t == default_transitions[i] IN
    /\ t.from_state = session.state
    /\ t.event = event
    /\ (t.condition # "none" => Condition(t.condition, session))

\* The for loop of process_event from entry i on: the index of the entry it
\* executes, 0 when it falls through.
RECURSIVE scan(_, _, _)
scan(i, session, event) ==
    IF i > Len(default_transitions) THEN 0
    ELSE IF EntryApplies(i, session, event) THEN i
    ELSE scan(i + 1, session, event)

\* process_event without its assignment session.state = transition.to_state.
process_event_reporting_only(session, event) ==
    LET old_state == session.state
        i == scan(1, session, event)
    IN  IF i # 0
        THEN [success |-> TRUE, old_state |-> old_state,
              new_state |-> default_transitions[i].to_state, transition |-> i,
              session |-> session]
        ELSE [success |-> FALSE, old_state |-> old_state,
              new_state |-> old_state, transition |-> 0, session |-> session]

\* SessionStateMachine.process_event: the TransitionResult (transition as the
\* index of the table entry, 0 for None) and the session as it leaves the call.
process_event(session, event) ==
    LET old_state == session.state
        i == scan(1, session, event)
    IN  IF i # 0
        THEN [success |-> TRUE, old_state |-> old_state,
              new_state |-> default_transitions[i].to_state, transition |-> i,
              session |-> set_state(session, default_transitions[i].to_state)]
        ELSE [success |-> FALSE, old_state |-> old_state,
              new_state |-> old_state, transition |-> 0, session |-> session]

\* can_transition done by processing the event.
can_transition_by_processing(session, event) ==
    LET r == process_event(session, event) IN
    [result |-> r.success, session |-> r.session]

\* SessionStateMachine.can_transition: the same tests as process_event, with
\* return True in place of the assignment; the value returned and the
\* session as it leaves the call.
can_transition(session, event) ==
    [result |-> \E i \in DOMAIN default_transitions : EntryApplies(i, session, event),
     session |-> session]

(***************************************************************************)
(* models.py: SessionMessage and AgentSession                              *)
(***************************************************************************)

\* Python's None, for the optional string fields.
None == "None"

\* A message content: free text is a numbered text; the generated system
\* messages carry a number and the name of a state.
Content(kind, a, s) == [kind |-> kind, a |-> a, s |-> s]

Text(n) == Content("text", n, "")

\* SessionMessage(role=..., content=...).
SessionMessage(role, content) == [role |-> role, content |-> content]

\* get_workspace_name(workspace_root): the last part of the path.
get_workspace_name(workspace_root) ==
    CASE workspace_root = "" -> "unknown"
      [] workspace_root = "/ws" -> "ws"
      [] OTHER -> workspace_root

\* An optional value that is not a string: <<>> for None, <<v>> for v.
Unset == <<>>

\* AgentSession(session_id=..., ...) with the dataclass defaults; the hooks
\* pass conversation_id = session_id.
AgentSession(session_id, workspace_root, t) ==
    [session_id |-> session_id,
     conversation_id |-> session_id,
     workspace_root |-> workspace_root,
     workspace_name |-> get_workspace_name(workspace_root),
     state |-> IDLE,
     status |-> "idle",
     started_at |-> t,
     last_activity |-> t,
     current_task |-> None,
     messages |-> <<>>,
     pending_dashboard_messages |-> <<>>,
     files_changed |-> <<>>,
     tools_used |-> <<>>,
     agent_pid |-> Unset,
     loop_enabled |-> FALSE,
     loop_count |-> 0,
     loop_prompt_name |-> None,
     loop_started_at |-> Unset,
     review_enabled |-> FALSE,
     review_constraints |-> None,
     review_iteration |-> 0,
     max_review_iterations |-> 3,
     in_review_cycle |-> FALSE,
     review_satisfied |-> FALSE,
     last_reviewed_files |-> <<>>]

\* datetime.isoformat(): the text of a time; datetime.fromisoformat(text).
isoformat(t) == [iso |-> t]

fromisoformat(text) == text.iso

\* SessionMessage.to_dict / from_dict.
message_to_dict(m) == [role |-> m.role, content |-> m.content]

message_from_dict(d) == SessionMessage(d.role, d.content)

\* AgentSession.to_dict: the JSON object of one session.
to_dict(session) ==
    [session_id |-> session.session_id,
     conversation_id |-> session.conversation_id,
     workspace_root |-> session.workspace_root,
     workspace_name |-> session.workspace_name,
     state |-> session.state,
     status |-> session.status,
     started_at |-> isoformat(session.started_at),
     last_activity |-> isoformat(session.last_activity),
     current_task |-> session.current_task,
     messages |-> [i \in DOMAIN session.messages |-> message_to_dict(session.messages[i])],
     pending_dashboard_messages |-> session.pending_dashboard_messages,
     files_changed |-> session.files_changed,
     tools_used |-> session.tools_used,
     agent_pid |-> session.agent_pid,
     loop_enabled |-> session.loop_enabled,
     loop_count |-> session.loop_count,
     loop_prompt_name |-> session.loop_prompt_name,
     loop_started_at |-> IF session.loop_started_at # Unset
                         THEN <<isoformat(session.loop_started_at[1])>>
                         ELSE Unset,
     review_enabled |-> session.review_enabled,
     review_constraints |-> session.review_constraints,
     review_iteration |-> session.review_iteration,
     max_review_iterations |-> session.max_review_iterations,
     in_review_cycle |-> session.in_review_cycle,
     review_satisfied |-> session.review_satisfied,
     last_reviewed_files |-> session.last_reviewed_files]

\* data.get(key, default)
Get(data, key, default) == IF key \in DOMAIN data THEN data[key] ELSE default

\* from_dict: the state always derived from the status.
state_from_status(data) == Get(data, "status", "idle")

\* from_dict: state = data.get("state"), and the status when that is None.
state_of(data) ==
    IF Get(data, "state", None) = None
    THEN Get(data, "status", "idle")
    ELSE data.state

\* AgentSession.from_dict: required keys are indexed, the others have
\* defaults; a record without "state" takes its state from its status.
from_dict(data) ==
    LET state == state_of(data)
        loop_started_at == Get(data, "loop_started_at", Unset)
    IN  [session_id |-> data.session_id,
         conversation_id |-> data.conversation_id,
         workspace_root |-> data.workspace_root,
         workspace_name |-> data.workspace_name,
         state |-> state,
         status |-> Get(data, "status", "idle"),
         started_at |-> fromisoformat(data.started_at),
         last_activity |-> fromisoformat(data.last_activity),
         current_task |-> Get(data, "current_task", None),
         messages |-> LET ms == Get(data, "messages", <<>>) IN
                      [i \in DOMAIN ms |-> message_from_dict(ms[i])],
         pending_dashboard_messages |-> Get(data, "pending_dashboard_messages", <<>>),
         files_changed |-> Get(data, "files_changed", <<>>),
         tools_used |-> Get(data, "tools_used", <<>>),
         agent_pid |-> Get(data, "agent_pid", Unset),
         loop_enabled |-> Get(data, "loop_enabled", FALSE),
         loop_count |-> Get(data, "loop_count", 0),
         loop_prompt_name |-> Get(data, "loop_prompt_name", None),
         loop_started_at |-> IF loop_started_at # Unset
                             THEN <<fromisoformat(loop_started_at[1])>>
                             ELSE Unset,
         review_enabled |-> Get(data, "review_enabled", FALSE),
         review_constraints |-> Get(data, "review_constraints", None),
         review_iteration |-> Get(data, "review_iteration", 0),
         max_review_iterations |-> Get(data, "max_review_iterations", 3),
         in_review_cycle |-> Get(data, "in_review_cycle", FALSE),
         review_satisfied |-> Get(data, "review_satisfied", FALSE),
         last_reviewed_files |-> Get(data, "last_reviewed_files", <<>>)]

(***************************************************************************)
(* store.py at the level of the files: the lock file, the canonical        *)
(* sessions file and the temporary file of _write_sessions.                *)
(***************************************************************************)

\* The text of a file as the tokens json.dump writes one after the other:
\* "{", one entry per session, "}".
NoDict == [empty |-> TRUE]

Token(t, sid, d) == [t |-> t, sid |-> sid, d |-> d]

\* The keys of a dict in the order json.dump writes them.
RECURSIVE KeyOrder(_)
KeyOrder(keys) ==
    IF keys = {} THEN <<>>
    ELSE LET k == CHOOSE x \in keys : TRUE IN <<k>> \o KeyOrder(keys \ {k})

\* json.dump(data, f): the whole text of a collection.
dump(data) ==
    LET order == KeyOrder(DOMAIN data) IN
    <<Token("{", "", NoDict)>>
        \o [i \in DOMAIN order |-> Token("entry", order[i], data[order[i]])]
        \o <<Token("}", "", NoDict)>>

\* json.load accepts exactly a complete text.
IsCompleteJson(text) ==
    /\ Len(text) >= 2
    /\ text[1].t = "{"
    /\ text[Len(text)].t = "}"
    /\ \A i \in 2..(Len(text) - 1) : text[i].t = "entry"

\* json.load(f) of a complete text: the mapping of session id to dict.
load(text) ==
    LET ids == {text[i].sid : i \in 2..(Len(text) - 1)} IN
    [sid \in ids |-> (CHOOSE i \in 2..(Len(text) - 1) : text[i].sid = sid
                          /\ \A j \in (i + 1)..(Len(text) - 1) : text[j].sid # sid)]

NoFile == [exists |-> FALSE, text |-> <<>>]

File(text) == [exists |-> TRUE, text |-> text]

\* json.load of the text "[]": valid JSON whose value is a list.
IsJsonList(text) == text = <<Token("[", "", NoDict), Token("]", "", NoDict)>>

\* The values of the enum SessionStatus.
SessionStatusValues == {"active", "idle", "stopped"}

\* datetime.fromisoformat accepts the texts isoformat writes.
IsIsoformat(text) == DOMAIN text = {"iso"}

\* The exception AgentSession.from_dict raises on a dict, "none" when it
\* returns: the arguments of cls(...) are evaluated in the order written.
from_dict_error(data) ==
    IF {"session_id", "conversation_id", "workspace_root", "workspace_name"}
           \ DOMAIN data # {}
    THEN "KeyError"
    ELSE IF Get(data, "status", "idle") \notin SessionStatusValues THEN "ValueError"
    ELSE IF "started_at" \notin DOMAIN data THEN "KeyError"
    ELSE IF ~IsIsoformat(data.started_at) THEN "ValueError"
    ELSE IF "last_activity" \notin DOMAIN data THEN "KeyError"
    ELSE IF ~IsIsoformat(data.last_activity) THEN "ValueError"
    ELSE "none"

\* The exception raised inside the try block of _read_sessions, "none" when
\* the block returns: json.load rejects an incomplete text, a list has no
\* items(), and the comprehension stops at the first record from_dict rejects.
read_sessions_error(files) ==
    LET text == files["sessions.json"].text IN
    IF ~files["sessions.json"].exists THEN "none"
    ELSE IF IsJsonList(text) THEN "AttributeError"
    ELSE IF ~IsCompleteJson(text) THEN "JSONDecodeError"
    ELSE LET at == load(text)
             bad == {i \in {at[sid] : sid \in DOMAIN at} :
                        from_dict_error(text[i].d) # "none"}
         IN  IF bad = {} THEN "none"
             ELSE from_dict_error(text[CHOOSE i \in bad : \A j \in bad : i <= j].d)

\* except (json.JSONDecodeError, KeyError)
read_sessions_caught == {"JSONDecodeError", "KeyError"}

\* _read_sessions leaves by an exception its except clause does not name.
read_sessions_raises(files) ==
    read_sessions_error(files) \notin read_sessions_caught \cup {"none"}

\* SessionStore._read_sessions: a missing file, and an exception the except
\* clause names, both give the empty collection.
read_sessions(files) ==
    IF ~files["sessions.json"].exists THEN <<>>
    ELSE IF read_sessions_error(files) # "none" THEN <<>>
    ELSE LET text == files["sessions.json"].text
             at == load(text)
         IN  [sid \in DOMAIN at |-> from_dict(text[at[sid]].d)]

\* The file _write_sessions writes the text to before the rename.
temp_file_in_place == "sessions.json"

temp_file == "sessions.tmp"

\* The flock mode of each store method.
add_message_lock_shared == "sh"

add_message_lock == "ex"

get_session_lock == "sh"

\* fcntl.flock(fd, lock_type) returns once the lock can be granted.
CanLock(c, mode) ==
    IF mode = "ex" THEN \A o \in DOMAIN lock : o = c \/ lock[o] = "none"
    ELSE \A o \in DOMAIN lock : o = c \/ lock[o] # "ex"

NumCallers == 2

MaxAdds == 3

Callers == 1..NumCallers

\* The message of caller c's k-th add_message call.
MsgOf(c, k) == SessionMessage("user", Text(c * (MaxAdds + 1) + k))

SeedMessage == SessionMessage("assistant", Text(0))

\* f.write at the file offset of the writer's own descriptor.
PutAt(text, i, tok) ==
    [j \in 1..(IF i > Len(text) THEN i ELSE Len(text)) |->
        IF j = i THEN tok
        ELSE IF j <= Len(text) THEN text[j]
        ELSE Token("hole", "", NoDict)]

\* A caller outside any store method: no locals, and the number of its
\* add_message calls that have returned.
NoLocals ==
    [op |-> "none", sid |-> "", message |-> SeedMessage, before |-> <<>>,
     sessions |-> <<>>, text |-> <<>>, pos |-> 0, ret |-> "none", calls |-> 0]

FileInit ==
    /\ sm = [phase |-> "off"]
    /\ now = 0
    /\ fs = [f \in {"sessions.json", "sessions.tmp"} |->
                IF f = "sessions.json"
                THEN File(dump([sid \in {"s1"} |->
                        to_dict([AgentSession("s1", "/ws", 0)
                                    EXCEPT !.messages = <<SeedMessage>>])]))
                ELSE NoFile]
    /\ lock = [c \in Callers |-> "none"]
    /\ cpc = [c \in Callers |-> "idle"]
    /\ cloc = [c \in Callers |-> NoLocals]
    /\ store = <<>> /\ config = <<>> /\ spawned = <<>>

\* The add_message calls made so far, returned or not.
RECURSIVE AddsStarted(_)
AddsStarted(cs) ==
    IF cs = {} THEN 0
    ELSE LET c == CHOOSE x \in cs : TRUE IN
         cloc[c].calls + (IF cloc[c].op = "add_message" THEN 1 ELSE 0)
            + AddsStarted(cs \ {c})

\* add_message: with self._file_lock(exclusive=True)
AddMessageFlock(c) ==
    /\ cpc[c] = "idle"
    /\ AddsStarted(Callers) < MaxAdds
    /\ CanLock(c, add_message_lock)
    /\ lock' = [lock EXCEPT ![c] = add_message_lock]
    /\ cpc' = [cpc EXCEPT ![c] = "read"]
    /\ cloc' = [cloc EXCEPT ![c].op = "add_message", ![c].sid = "s1",
                            ![c].message = MsgOf(c, cloc[c].calls + 1),
                            ![c].ret = "none"]
    /\ UNCHANGED <<sm, fs, now, store, config, spawned>>

\* add_message: sessions = self._read_sessions(); the not-found return; the
\* append and the new last_activity; the data of _write_sessions.
AddMessageRead(c) ==
    /\ cpc[c] = "read"
    /\ cloc[c].op = "add_message"
    /\ LET sessions == read_sessions(fs)
           sid == cloc[c].sid
       IN  IF sid \notin DOMAIN sessions
           THEN /\ cpc' = [cpc EXCEPT ![c] = "unlock"]
                /\ cloc' = [cloc EXCEPT ![c].before = sessions,
                                        ![c].sessions = sessions, ![c].ret = "False"]
           ELSE LET changed == [sessions EXCEPT
                                   ![sid].messages = Append(@, cloc[c].message),
                                   ![sid].last_activity = now]
                IN  /\ cpc' = [cpc EXCEPT ![c] = "open"]
                    /\ cloc' = [cloc EXCEPT
                                   ![c].before = sessions,
                                   ![c].sessions = changed,
                                   ![c].text = dump([s \in DOMAIN changed |->
                                                        to_dict(changed[s])]),
                                   ![c].pos = 0]
    /\ UNCHANGED <<sm, fs, lock, now, store, config, spawned>>

\* _write_sessions: open(temp_file, "w") creates or truncates the file.
WriteOpen(c) ==
    /\ cpc[c] = "open"
    /\ fs' = [fs EXCEPT ![temp_file] = File(<<>>)]
    /\ cpc' = [cpc EXCEPT ![c] = "write"]
    /\ UNCHANGED <<sm, lock, cloc, now, store, config, spawned>>

\* _write_sessions: json.dump writes the text piece by piece; the with block
\* closes the file after the last piece.
WriteChunk(c) ==
    /\ cpc[c] = "write"
    /\ LET i == cloc[c].pos + 1 IN
       /\ fs' = [fs EXCEPT ![temp_file] = File(PutAt(fs[temp_file].text, i, cloc[c].text[i]))]
       /\ cloc' = [cloc EXCEPT ![c].pos = i]
       /\ cpc' = [cpc EXCEPT ![c] = IF i = Len(cloc[c].text) THEN "replace" ELSE "write"]
    /\ UNCHANGED <<sm, lock, now, store, config, spawned>>

\* _write_sessions: temp_file.replace(self.sessions_file), the atomic rename;
\* the method then returns True.
Replace(c) ==
    /\ cpc[c] = "replace"
    /\ fs' = IF temp_file = "sessions.json" THEN fs
             ELSE [fs EXCEPT !["sessions.json"] = fs[temp_file], ![temp_file] = NoFile]
    /\ cpc' = [cpc EXCEPT ![c] = "unlock"]
    /\ cloc' = [cloc EXCEPT ![c].ret = IF fs[temp_file].exists THEN "True" ELSE "raised"]
    /\ UNCHANGED <<sm, lock, now, store, config, spawned>>

\* get_session: with self._file_lock(exclusive=False)
GetSessionFlock(c) ==
    /\ cpc[c] = "idle"
    /\ CanLock(c, get_session_lock)
    /\ lock' = [lock EXCEPT ![c] = get_session_lock]
    /\ cpc' = [cpc EXCEPT ![c] = "read"]
    /\ cloc' = [cloc EXCEPT ![c].op = "get_session", ![c].sid = "s1", ![c].ret = "none"]
    /\ UNCHANGED <<sm, fs, now, store, config, spawned>>

\* get_session: return self._read_sessions().get(session_id)
GetSessionRead(c) ==
    /\ cpc[c] = "read"
    /\ cloc[c].op = "get_session"
    /\ LET sessions == read_sessions(fs) IN
       cloc' = [cloc EXCEPT ![c].before = sessions, ![c].sessions = sessions,
                            ![c].ret = IF cloc[c].sid \in DOMAIN sessions
                                       THEN "found" ELSE "None"]
    /\ cpc' = [cpc EXCEPT ![c] = "unlock"]
    /\ UNCHANGED <<sm, fs, lock, now, store, config, spawned>>

\* _file_lock: finally: fcntl.flock(fd, LOCK_UN); os.close(fd). The method
\* has returned.
Unlock(c) ==
    /\ cpc[c] = "unlock"
    /\ lock' = [lock EXCEPT ![c] = "none"]
    /\ cpc' = [cpc EXCEPT ![c] = "idle"]
    /\ cloc' = [cloc EXCEPT
                   ![c] = [NoLocals EXCEPT
                              !.calls = IF cloc[c].op = "add_message"
                                        THEN cloc[c].calls + 1 ELSE cloc[c].calls]]
    /\ UNCHANGED <<sm, fs, now, store, config, spawned>>

\* The process of a writer dies inside the store write; the kernel closes its
\* descriptors, which drops its flock.
Crash(c) ==
    /\ cpc[c] \in {"read", "open", "write", "replace"}
    /\ cloc[c].op = "add_message"
    /\ cpc' = [cpc EXCEPT ![c] = "crashed"]
    /\ lock' = [lock EXCEPT ![c] = "none"]
    /\ UNCHANGED <<sm, fs, cloc, now, store, config, spawned>>

FileNext ==
    \E c \in Callers :
        \/ AddMessageFlock(c)
        \/ AddMessageRead(c)
        \/ WriteOpen(c)
        \/ WriteChunk(c)
        \/ Replace(c)
        \/ GetSessionFlock(c)
        \/ GetSessionRead(c)
        \/ Unlock(c)
        \/ Crash(c)

SpecFile == FileInit /\ [][FileNext]_vars

\* The message log of session s1 as a read of the canonical file returns it.
PersistedLog ==
    LET sessions == read_sessions(fs) IN
    IF "s1" \in DOMAIN sessions THEN sessions["s1"].messages ELSE <<>>

Occurrences(m, log) == Cardinality({i \in DOMAIN log : log[i] = m})

\* C3: concurrent add_message calls of lock-respecting callers on one existing
\* session: every message of a returned call is in the persisted log exactly
\* once, no message is there twice, nothing else was added to what was there
\* before, and the messages of one caller are in that caller's call order.
C3_AddMessageNoLossNoDuplicate ==
    LET log == PersistedLog IN
    /\ Len(log) >= 1 /\ log[1] = SeedMessage
    /\ \A i \in 2..Len(log) :
          \E c \in Callers, k \in 1..MaxAdds : log[i] = MsgOf(c, k)
    /\ \A c \in Callers, k \in 1..MaxAdds :
          /\ Occurrences(MsgOf(c, k), log) <= 1
          /\ k <= cloc[c].calls => Occurrences(MsgOf(c, k), log) = 1
          /\ k > cloc[c].calls + 1 => Occurrences(MsgOf(c, k), log) = 0
    /\ \A c \in Callers, k1, k2 \in 1..MaxAdds, i, j \in DOMAIN log :
          (k1 < k2 /\ log[i] = MsgOf(c, k1) /\ log[j] = MsgOf(c, k2)) => i < j
    /\ \A c \in Callers :
          (cpc[c] = "unlock" /\ cloc[c].op = "add_message") => cloc[c].ret = "True"

\* Every caller has returned from its calls, all the calls were made, and
\* the messages are interleaved in the log: the two messages of some caller
\* are not adjacent.
C3_Witness ==
    /\ \A c \in Callers : cloc[c].calls >= 1 /\ cpc[c] = "idle"
    /\ Len(PersistedLog) = 1 + MaxAdds
    /\ \E c \in Callers, i, j \in DOMAIN PersistedLog :
          /\ i + 1 < j
          /\ PersistedLog[i] = MsgOf(c, 1)
          /\ PersistedLog[j] = MsgOf(c, 2)

\* C8: whatever the point at which a writer dies, the canonical file is a
\* complete text: the collection as it was before the write until the rename,
\* the collection after the write from the rename on; and every read returns
\* a collection that was the content of the canonical file.
C8_CanonicalOldOrNew ==
    /\ fs["sessions.json"].exists
    /\ IsCompleteJson(fs["sessions.json"].text)
    /\ \A c \in Callers :
          /\ cpc[c] \in {"open", "write", "replace"} =>
                read_sessions(fs) = cloc[c].before
          /\ (cpc[c] = "unlock" /\ cloc[c].op = "add_message") =>
                read_sessions(fs) = cloc[c].sessions
          /\ (cpc[c] = "unlock" /\ cloc[c].op = "get_session") =>
                /\ cloc[c].ret = "found"
                /\ cloc[c].sessions = read_sessions(fs)

\* A writer died in the middle of writing the temporary file, and another
\* caller has read the store since.
C8_Witness ==
    /\ \E c \in Callers : cpc[c] = "crashed"
    /\ fs[temp_file].exists
    /\ ~IsCompleteJson(fs[temp_file].text)
    /\ fs[temp_file].text # <<>>
    /\ \E r \in Callers : cpc[r] = "unlock" /\ cloc[r].op = "get_session"

(***************************************************************************)
(* Harness of the state machine: every session field the guards read and   *)
(* every event name, one call of process_event.                            *)
(***************************************************************************)

MaxReviewIterations == 2

Events ==
    {"session_start", "turn_end", "evaluate", "spawn_reviewer", "feedback_sent",
     "check_review", "prompt_sent", "error", "reset", "force_idle", "unknown_event"}

\* Sessions over every value of the fields the state machine reads; the status
\* is the one the state setter keeps.
SMSessions ==
    {[AgentSession("s1", "/ws", 0) EXCEPT
        !.state = st, !.status = from_state(st), !.files_changed = fc,
        !.review_enabled = b[1], !.review_satisfied = b[2],
        !.loop_enabled = b[3], !.in_review_cycle = b[4],
        !.review_iteration = ri, !.max_review_iterations = mi] :
        st \in SessionState, fc \in {<<>>, <<"a.py">>},
        b \in [1..4 -> BOOLEAN],
        ri \in 0..MaxReviewIterations, mi \in 1..MaxReviewIterations}

NoResult ==
    [success |-> FALSE, old_state |-> IDLE, new_state |-> IDLE, transition |-> 0]

SMInit ==
    /\ \E s \in SMSessions, e \in Events :
          sm = [phase |-> "call", input |-> s, event |-> e,
                session |-> s, result |-> NoResult, can |-> FALSE]
    /\ fs = <<>> /\ lock = <<>> /\ cpc = <<>> /\ cloc = <<>> /\ now = 0
    /\ store = <<>> /\ config = <<>> /\ spawned = <<>>

SMProcessEvent ==
    /\ UNCHANGED <<fs, lock, cpc, cloc, now, store, config, spawned>>
    /\ sm.phase = "call"
    /\ LET r == process_event(sm.session, sm.event) IN
       sm' = [sm EXCEPT !.phase = "returned",
                        !.session = r.session,
                        !.result = [success |-> r.success, old_state |-> r.old_state,
                                    new_state |-> r.new_state,
                                    transition |-> r.transition]]

\* ok = state_machine.can_transition(session, event)
SMCanTransition ==
    /\ UNCHANGED <<fs, lock, cpc, cloc, now, store, config, spawned>>
    /\ sm.phase = "call"
    /\ LET c == can_transition(sm.session, sm.event) IN
       sm' = [sm EXCEPT !.phase = "checked", !.session = c.session, !.can = c.result]

SMNext == SMProcessEvent \/ SMCanTransition

SpecSM == SMInit /\ [][SMNext]_vars

\* The entries of the table that match the call's state and event and whose
\* guard is absent or true on the session as it was passed in.
Enabled(session, event) ==
    {i \in DOMAIN default_transitions :
        /\ default_transitions[i].from_state = session.state
        /\ default_transitions[i].event = event
        /\ \/ default_transitions[i].condition = "none"
           \/ Condition(default_transitions[i].condition, session)}

First(S) == CHOOSE i \in S : \A j \in S : i <= j

\* C1: process_event succeeds exactly when some table entry matches the
\* session's state and the event with no guard or a true guard; it then moves
\* the session to the to_state of the first such entry in declaration order and
\* reports old state, new state and that entry; otherwise it reports failure
\* with old_state = new_state = the unchanged state and no transition.
C1_ProcessEventContract ==
    sm.phase = "returned" =>
        LET en == Enabled(sm.input, sm.event) IN
        /\ sm.result.success <=> (en # {})
        /\ en # {} =>
              /\ sm.result.transition = First(en)
              /\ sm.session.state = default_transitions[First(en)].to_state
              /\ sm.result.old_state = sm.input.state
              /\ sm.result.new_state = default_transitions[First(en)].to_state
        /\ en = {} =>
              /\ sm.result.transition = 0
              /\ sm.result.old_state = sm.input.state
              /\ sm.result.new_state = sm.input.state
              /\ sm.session = sm.input

\* A guarded entry that is not the first of its (state, event) group was chosen.
C1_Witness ==
    /\ sm.phase = "returned"
    /\ sm.result.success
    /\ sm.input.state = TURN_COMPLETE
    /\ sm.event = "evaluate"
    /\ sm.result.new_state = READY_FOR_LOOP

(***************************************************************************)
(* The hooks and the dashboard server over the store.  Every store method  *)
(* runs under the lock of store.py, so a store call is one step here; a    *)
(* hook or a handler is a sequence of store calls, and other processes may *)
(* run between two of them.                                                *)
(***************************************************************************)

\* The dashboard server is one process; every hook run is a process of its own.
Server == 1

Hooks == Callers \ {Server}

\* A prompt typed by a user: free text given as a string.
Prompt(s) == Content("text", 0, s)

\* str.strip() on the prompts used here.
strip(s) ==
    CASE s = " go " -> "go"
      [] s = " " -> ""
      [] OTHER -> s

\* str.lower(), one character.
Lower(c) ==
    CASE c = "A" -> "a"
      [] c = "B" -> "b"
      [] c = "C" -> "c"
      [] c = "D" -> "d"
      [] c = "E" -> "e"
      [] c = "F" -> "f"
      [] c = "G" -> "g"
      [] c = "H" -> "h"
      [] c = "I" -> "i"
      [] c = "J" -> "j"
      [] c = "K" -> "k"
      [] c = "L" -> "l"
      [] c = "M" -> "m"
      [] c = "N" -> "n"
      [] c = "O" -> "o"
      [] c = "P" -> "p"
      [] c = "Q" -> "q"
      [] c = "R" -> "r"
      [] c = "S" -> "s"
      [] c = "T" -> "t"
      [] c = "U" -> "u"
      [] c = "V" -> "v"
      [] c = "W" -> "w"
      [] c = "X" -> "x"
      [] c = "Y" -> "y"
      [] c = "Z" -> "z"
      [] OTHER -> c

\* str.lower()
lower(text) == [i \in DOMAIN text |-> Lower(text[i])]

\* sub in text
Contains(sub, text) ==
    \E i \in 1..(Len(text) - Len(sub) + 1) : SubSeq(text, i, i + Len(sub) - 1) = sub

DEFAULT_COMPLETION_PHRASES ==
    <<<<"g", "o", "a", "l", " ", "h", "a", "s", " ", "b", "e", "e", "n", " ", "a", "c", "h", "i", "e", "v", "e", "d">>,
      <<"g", "o", "a", "l", " ", "i", "s", " ", "c", "o", "m", "p", "l", "e", "t", "e">>,
      <<"t", "a", "s", "k", " ", "i", "s", " ", "c", "o", "m", "p", "l", "e", "t", "e">>,
      <<"t", "a", "s", "k", " ", "h", "a", "s", " ", "b", "e", "e", "n", " ", "c", "o", "m", "p", "l", "e", "t", "e", "d">>,
      <<"a", "l", "l", " ", "t", "a", "s", "k", "s", " ", "a", "r", "e", " ", "c", "o", "m", "p", "l", "e", "t", "e">>,
      <<"a", "l", "l", " ", "d", "o", "n", "e">>,
      <<"w", "o", "r", "k", " ", "i", "s", " ", "c", "o", "m", "p", "l", "e", "t", "e">>,
      <<"o", "b", "j", "e", "c", "t", "i", "v", "e", " ", "h", "a", "s", " ", "b", "e", "e", "n", " ", "m", "e", "t">>,
      <<"s", "u", "c", "c", "e", "s", "s", "f", "u", "l", "l", "y", " ", "c", "o", "m", "p", "l", "e", "t", "e", "d">>,
      <<"n", "o", "t", "h", "i", "n", "g", " ", "l", "e", "f", "t", " ", "t", "o", " ", "d", "o">>,
      <<"n", "o", " ", "f", "u", "r", "t", "h", "e", "r", " ", "a", "c", "t", "i", "o", "n", " ", "n", "e", "e", "d", "e", "d">>,
      <<"n", "o", " ", "f", "u", "r", "t", "h", "e", "r", " ", "a", "c", "t", "i", "o", "n", "s", " ", "n", "e", "e", "d", "e", "d">>,
      <<"f", "i", "n", "i", "s", "h", "e", "d", " ", "a", "l", "l">>,
      <<"c", "o", "m", "p", "l", "e", "t", "e", "d", " ", "a", "l", "l">>>>

default_end_condition ==
    <<"L", "O", "O", "P", "_", "C", "O", "M", "P", "L", "E", "T", "E", ":", " ", "T", "a", "s", "k", " ", "f", "i", "n", "i", "s", "h", "e", "d", ".">>

default_config ==
    [prompt |-> "Continue working. When done, say 'LOOP_COMPLETE: Task finished.'",
     end_condition |-> default_end_condition]

\* The agent responses a stop hook may report (conversation.agentTextResponse),
\* by number; a stored assistant message holds the number.
ResponseIds == 0..6

agentTextResponse(n) ==
    CASE n = 0 -> <<>>
      [] n = 1 -> <<"S", "t", "i", "l", "l", " ", "w", "o", "r", "k", "i", "n", "g", " ", "o", "n", " ", "t", "h", "e", " ", "t", "e", "s", "t", "s", ".">>
      [] n = 2 -> <<"D", "o", "n", "e", ".", " ", "L", "O", "O", "P", "_", "C", "O", "M", "P", "L", "E", "T", "E", ":", " ", "T", "a", "s", "k", " ", "f", "i", "n", "i", "s", "h", "e", "d", ".">>
      [] n = 3 -> <<"l", "o", "o", "p", "_", "c", "o", "m", "p", "l", "e", "t", "e", ":", " ", "t", "a", "s", "k", " ", "f", "i", "n", "i", "s", "h", "e", "d", ".">>
      [] n = 4 -> <<"A", "L", "L", " ", "D", "O", "N", "E", ",", " ", "s", "e", "e", " ", "t", "h", "e", " ", "d", "i", "f", "f", ".">>
      [] n = 5 -> <<"T", "e", "s", "t", "s", " ", "p", "a", "s", "s", ":", " ", "S", "H", "I", "P", "-", "I", "T">>
      [] n = 6 -> <<"R", "e", "a", "d", "y", " ", "t", "o", " ", "M", "e", "r", "g", "e", " ", "n", "o", "w", ".">>

\* The iteration bound, the inactivity threshold in minutes, the last clock
\* value and the longest message log of the configurations explored.
MaxLoopIterations == 2

TimeoutMinutes == 1

MaxTime == 5

MaxLog == 2

\* The longest log that is followed where whole turns are recorded.
MaxTurnLog == 7

\* The longest log a step may leave.
LogLimit == IF sm.phase = "turn" THEN MaxTurnLog ELSE MaxLog

\* The most spawns of one queued message that are followed.
MaxSpawns == 2

\* A configuration file with every key set: a loop prompt with an end
\* condition, one in the legacy string format, one without an end condition.
custom_config ==
    [max_loop_iterations |-> MaxLoopIterations,
     agent_timeout_minutes |-> TimeoutMinutes,
     loop_prompts |->
        [name \in {"ship", "legacy", "bare"} |->
            CASE name = "ship" -> [prompt |-> "Keep going until it ships.",
                                   end_condition |-> <<"S", "H", "I", "P", "-", "I", "T">>]
              [] name = "legacy" -> [str |-> "Continue."]
              [] name = "bare" -> [prompt |-> "Continue with the plan."]],
     completion_phrases |-> <<<<"r", "e", "a", "d", "y", " ", "t", "o", " ", "m", "e", "r", "g", "e">>>>]

\* The same file without completion_phrases, and the missing or unreadable
\* file, for which load_config returns {}.
loop_config_only == [k \in {"max_loop_iterations", "loop_prompts"} |-> custom_config[k]]

empty_config == <<>>

\* check_goal_completion(agent_text, config)
check_goal_completion(agent_text, cfg) ==
    /\ agent_text # <<>>
    /\ LET phrases == Get(cfg, "completion_phrases", DEFAULT_COMPLETION_PHRASES)
           text_lower == lower(agent_text)
       IN  \E i \in DOMAIN phrases : Contains(lower(phrases[i]), text_lower)

\* get_all_sessions without reverse=True: the oldest first.
get_all_sessions_oldest_first(sessions) ==
    {l \in [1..Cardinality(DOMAIN sessions) -> DOMAIN sessions] :
        /\ \A i, j \in DOMAIN l : i # j => l[i] # l[j]
        /\ \A i, j \in DOMAIN l :
              i < j => sessions[l[i]].last_activity <= sessions[l[j]].last_activity}

\* SessionStore.get_all_sessions: the sessions sorted by last activity, most
\* recent first; sessions of equal last activity keep the order of the file,
\* which may be any order.
get_all_sessions(sessions) ==
    {l \in [1..Cardinality(DOMAIN sessions) -> DOMAIN sessions] :
        /\ \A i, j \in DOMAIN l : i # j => l[i] # l[j]
        /\ \A i, j \in DOMAIN l :
              i < j => sessions[l[i]].last_activity >= sessions[l[j]].last_activity}

\* SessionStore.upsert_session: the dictionary read, the entry replaced, the
\* dictionary written; what is written is what a later read returns.
upsert_session(sessions, session) ==
    [sid \in DOMAIN sessions \cup {session.session_id} |->
        from_dict(to_dict(IF sid = session.session_id THEN session ELSE sessions[sid]))]

\* SessionStore.add_message
add_message(sessions, session_id, message, t) ==
    IF session_id \notin DOMAIN sessions
    THEN sessions
    ELSE upsert_session(sessions,
            [sessions[session_id] EXCEPT !.messages = Append(@, message),
                                         !.last_activity = t])

\* SessionStore.update_session_status
update_session_status(sessions, session_id, status, current_task, t) ==
    IF session_id \notin DOMAIN sessions
    THEN sessions
    ELSE upsert_session(sessions,
            [sessions[session_id] EXCEPT
                !.status = status,
                !.last_activity = t,
                !.current_task = IF current_task # None THEN current_task ELSE @])

\* The side effects of a run: a spawned agent process or a notification.
Output(kind, title, body) == [kind |-> kind, title |-> title, body |-> body]

\* spawn_loop_message / spawn_auggie_message(conversation_id, workspace_root, message)
Spawn(conversation_id, content) == Output("spawn", conversation_id, content)

\* send_notification(title, message, ...)
Notification(title, body) == Output("notify", title, body)

\* No session: the value of the session local before a get_session.
NoSession == AgentSession("", "", 0)

\* A caller outside any hook or handler.
NoCall ==
    [op |-> "none", sid |-> "", user_prompt |-> "", agent_text |-> 0,
     existed |-> FALSE, existing |-> NoSession,
     found |-> FALSE, session |-> NoSession, list |-> <<>>, reset |-> <<>>,
     attempted |-> <<>>, i |-> 0, at |-> 0, content |-> Prompt(""), out |-> <<>>,
     process |-> "none", results |-> <<>>,
     workspace_root |-> "", parent_pid |-> 0, tool_name |-> ""]

\* [m for m in session.messages if m.role == "queued"], as positions
queued_messages(session) ==
    {i \in DOMAIN session.messages : session.messages[i].role = "queued"}

\* next_msg = queued_messages[-1]; next_msg.role = "user"
promote_last(session) ==
    LET i == CHOOSE j \in queued_messages(session) :
                 \A k \in queued_messages(session) : k <= j IN
    [session EXCEPT !.messages[i].role = "user"]

\* next_msg = queued_messages[0]; next_msg.role = "user"
promote(session) ==
    LET i == First(queued_messages(session)) IN
    [session EXCEPT !.messages[i].role = "user"]

\* The first queued message's content.
next_content(session) == session.messages[First(queued_messages(session))].content

\* stop.py: any(m.role == "user" and m.content.strip() == user_prompt.strip()
\*              for m in existing.messages[-5:])
user_msg_exists(existing, user_prompt) ==
    \E i \in DOMAIN existing.messages :
        /\ i > Len(existing.messages) - 5
        /\ existing.messages[i].role = "user"
        /\ existing.messages[i].content.kind = "text"
        /\ existing.messages[i].content.a = 0
        /\ strip(existing.messages[i].content.s) = strip(user_prompt)

\* stop.py: loop_prompts.get(prompt_name, default_config) if prompt_name else default_config
loop_config_of(cfg, prompt_name) ==
    IF prompt_name # None
    THEN Get(Get(cfg, "loop_prompts", <<>>), prompt_name, default_config)
    ELSE default_config

\* stop.py: the built-in prompt, whatever the loop configuration
loop_prompt_builtin(loop_config) == default_config.prompt

\* stop.py: the prompt of a loop configuration, in the new or the legacy format
loop_prompt_of(loop_config) ==
    IF "str" \in DOMAIN loop_config
    THEN loop_config.str
    ELSE Get(loop_config, "prompt", default_config.prompt)

\* stop.py: the end condition of a loop configuration
end_condition_of(loop_config) ==
    IF "str" \in DOMAIN loop_config
    THEN <<>>
    ELSE Get(loop_config, "end_condition", <<>>)

\* stop.py: end_condition in agent_text, when neither is empty
end_condition_met(end_condition, agent_text) ==
    /\ end_condition # <<>>
    /\ agent_text # <<>>
    /\ Contains(end_condition, agent_text)

\* stop.py: the branch taken for a session whose loop is enabled
loop_branch_limit_first(session, agent_text, cfg) ==
    IF session.loop_count >= Get(cfg, "max_loop_iterations", 50)
    THEN "limit"
    ELSE IF \/ end_condition_met(end_condition_of(loop_config_of(cfg, session.loop_prompt_name)),
                                  agent_text)
            \/ check_goal_completion(agent_text, cfg)
         THEN "goal"
         ELSE "continue"

loop_branch_off_by_one(session, agent_text, cfg) ==
    IF \/ end_condition_met(end_condition_of(loop_config_of(cfg, session.loop_prompt_name)),
                            agent_text)
       \/ check_goal_completion(agent_text, cfg)
    THEN "goal"
    ELSE IF session.loop_count <= Get(cfg, "max_loop_iterations", 50)
         THEN "continue"
         ELSE "limit"

loop_branch(session, agent_text, cfg) ==
    IF \/ end_condition_met(end_condition_of(loop_config_of(cfg, session.loop_prompt_name)),
                            agent_text)
       \/ check_goal_completion(agent_text, cfg)
    THEN "goal"
    ELSE IF session.loop_count < Get(cfg, "max_loop_iterations", 50)
         THEN "continue"
         ELSE "limit"

(***************************************************************************)
(* hooks/stop.py: run_hook                                                 *)
(***************************************************************************)

UserPrompts == {"", "go"}

\* existing = store.get_session(session_id), and the tests that choose what
\* the hook records; the prompts here are shorter than the 100 characters
\* kept as current_task.
StopHook(p, sid, user_prompt, agent_text) ==
    /\ cpc[p] = "idle"
    /\ LET found == sid \in DOMAIN store
           existing == IF found THEN store[sid] ELSE NoSession
           add_user == user_prompt # "" /\ ~user_msg_exists(existing, user_prompt)
           adds == (IF add_user THEN 1 ELSE 0) + (IF agent_text # 0 THEN 1 ELSE 0)
       IN  /\ Len(existing.messages) + adds <= LogLimit
           /\ cloc' = [cloc EXCEPT ![p] =
                         [NoCall EXCEPT !.op = "stop", !.sid = sid,
                                        !.user_prompt = user_prompt,
                                        !.agent_text = agent_text,
                                        !.existed = found, !.existing = existing]]
           /\ cpc' = [cpc EXCEPT ![p] =
                         IF ~found THEN "stop_create"
                         ELSE IF add_user THEN "stop_user"
                         ELSE IF agent_text # 0 THEN "stop_assistant"
                         ELSE "stop_status"]
    /\ UNCHANGED <<sm, fs, lock, now, store, config, spawned>>

\* store.add_message(session_id, SessionMessage(role="user", content=user_prompt))
StopAddUser(p) ==
    /\ cpc[p] = "stop_user"
    /\ cloc[p].sid \in DOMAIN store => Len(store[cloc[p].sid].messages) < LogLimit
    /\ store' = add_message(store, cloc[p].sid,
                            SessionMessage("user", Prompt(cloc[p].user_prompt)), now)
    /\ cpc' = [cpc EXCEPT ![p] =
                  IF cloc[p].agent_text # 0 THEN "stop_assistant" ELSE "stop_status"]
    /\ UNCHANGED <<sm, fs, lock, cloc, now, config, spawned>>

\* store.add_message(session_id, SessionMessage(role="assistant", content=agent_text))
StopAddAssistant(p) ==
    /\ cpc[p] = "stop_assistant"
    /\ cloc[p].sid \in DOMAIN store => Len(store[cloc[p].sid].messages) < LogLimit
    /\ store' = add_message(store, cloc[p].sid,
                            SessionMessage("assistant", Text(cloc[p].agent_text)), now)
    /\ cpc' = [cpc EXCEPT ![p] = "stop_status"]
    /\ UNCHANGED <<sm, fs, lock, cloc, now, config, spawned>>

\* store.update_session_status(session_id, SessionStatus.IDLE, current_task=...)
StopUpdateStatus(p) ==
    /\ cpc[p] = "stop_status"
    /\ store' = update_session_status(store, cloc[p].sid, "idle",
                    IF cloc[p].user_prompt # "" THEN cloc[p].user_prompt ELSE None, now)
    /\ cpc' = [cpc EXCEPT ![p] = "stop_loop"]
    /\ UNCHANGED <<sm, fs, lock, cloc, now, config, spawned>>

\* The new session of the else branch, with its messages, and its upsert.
StopCreate(p) ==
    /\ cpc[p] = "stop_create"
    /\ LET user == IF cloc[p].user_prompt # ""
                   THEN <<SessionMessage("user", Prompt(cloc[p].user_prompt))>>
                   ELSE <<>>
           assistant == IF cloc[p].agent_text # 0
                        THEN <<SessionMessage("assistant", Text(cloc[p].agent_text))>>
                        ELSE <<>>
       IN  store' = upsert_session(store,
                       [AgentSession(cloc[p].sid, "/ws", now) EXCEPT
                           !.status = "idle",
                           !.current_task = IF cloc[p].user_prompt # ""
                                            THEN cloc[p].user_prompt ELSE None,
                           !.messages = user \o assistant])
    /\ cpc' = [cpc EXCEPT ![p] = "stop_loop"]
    /\ UNCHANGED <<sm, fs, lock, cloc, now, config, spawned>>

\* The turn-complete notification, session = store.get_session(session_id)
\* and the choice of the branch.
StopCheckLoop(p) ==
    /\ cpc[p] = "stop_loop"
    /\ LET found == cloc[p].sid \in DOMAIN store
           session == IF found THEN store[cloc[p].sid] ELSE NoSession
       IN  /\ cloc' = [cloc EXCEPT
                         ![p].found = found,
                         ![p].session = session,
                         ![p].out = Append(@, Notification("Agent Turn Complete",
                                                           Text(cloc[p].agent_text)))]
           /\ cpc' = [cpc EXCEPT ![p] =
                         IF ~found THEN "done"
                         ELSE IF session.loop_enabled
                         THEN CASE loop_branch(session, agentTextResponse(cloc[p].agent_text),
                                               config) = "goal" -> "stop_goal"
                                [] loop_branch(session, agentTextResponse(cloc[p].agent_text),
                                               config) = "continue" -> "stop_continue"
                                [] OTHER -> "stop_limit"
                         ELSE IF queued_messages(session) # {} THEN "stop_promote"
                         ELSE "done"]
    /\ UNCHANGED <<sm, fs, lock, now, store, config, spawned>>

\* End condition met or goal achieved: the loop is stopped.
StopGoal(p) ==
    /\ cpc[p] = "stop_goal"
    /\ LET session == [cloc[p].session EXCEPT !.loop_enabled = FALSE] IN
       /\ store' = upsert_session(store, session)
       /\ cloc' = [cloc EXCEPT
                     ![p].session = session,
                     ![p].out = Append(@, Notification("Loop Complete",
                                          Content("goal_achieved", session.loop_count, "")))]
    /\ cpc' = [cpc EXCEPT ![p] = "done"]
    /\ UNCHANGED <<sm, fs, lock, now, config, spawned>>

\* session.loop_count += 1; store.upsert_session(session)
StopContinue(p) ==
    /\ cpc[p] = "stop_continue"
    /\ LET session == [cloc[p].session EXCEPT !.loop_count = @ + 1] IN
       /\ store' = upsert_session(store, session)
       /\ cloc' = [cloc EXCEPT
                     ![p].session = session,
                     ![p].content = Content("prompt", 0,
                        loop_prompt_of(loop_config_of(config, session.loop_prompt_name)))]
    /\ cpc' = [cpc EXCEPT ![p] = "stop_spawn_loop"]
    /\ UNCHANGED <<sm, fs, lock, now, config, spawned>>

\* spawn_loop_message: auggie is found and subprocess.Popen starts the agent
\* in a session of its own ("started"), or auggie is not found or Popen raises
\* ("failed"); the function returns at once and tells its caller nothing.
spawn_loop_message == {"started", "failed"}

\* spawn_loop_message(conversation_id, workspace_root, loop_prompt)
StopSpawnLoop(p) ==
    /\ cpc[p] = "stop_spawn_loop"
    /\ \E process \in spawn_loop_message :
          cloc' = [cloc EXCEPT ![p].out = Append(@, Spawn(cloc[p].sid, cloc[p].content)),
                               ![p].process = process,
                               ![p].results = Append(@, process = "started")]
    /\ cpc' = [cpc EXCEPT ![p] = "done"]
    /\ UNCHANGED <<sm, fs, lock, now, store, config, spawned>>

\* Max iterations reached: the loop is disabled.
StopLimit(p) ==
    /\ cpc[p] = "stop_limit"
    /\ LET session == [cloc[p].session EXCEPT !.loop_enabled = FALSE] IN
       /\ store' = upsert_session(store, session)
       /\ cloc' = [cloc EXCEPT
                     ![p].session = session,
                     ![p].out = Append(@, Notification("Loop Complete",
                                          Content("reached_iterations",
                                                  Get(config, "max_loop_iterations", 50), "")))]
    /\ cpc' = [cpc EXCEPT ![p] = "done"]
    /\ UNCHANGED <<sm, fs, lock, now, config, spawned>>

\* The loop is off and a message is queued: next_msg.role = "user";
\* store.upsert_session(session)
StopPromote(p) ==
    /\ cpc[p] = "stop_promote"
    /\ store' = upsert_session(store, promote(cloc[p].session))
    /\ cloc' = [cloc EXCEPT ![p].session = promote(cloc[p].session),
                            ![p].content = next_content(cloc[p].session)]
    /\ cpc' = [cpc EXCEPT ![p] = "stop_spawn_queued"]
    /\ UNCHANGED <<sm, fs, lock, now, config, spawned>>

\* The spawns of a content so far.
spawns_of(counts, content) == IF content \in DOMAIN counts THEN counts[content] ELSE 0

\* One more spawn with this content.
count_spawn(counts, content) ==
    [c \in DOMAIN counts \cup {content} |->
        IF c = content THEN spawns_of(counts, c) + 1 ELSE counts[c]]

\* spawn_loop_message(conversation_id, workspace_root, next_msg.content)
StopSpawnQueued(p) ==
    /\ cpc[p] = "stop_spawn_queued"
    /\ spawns_of(spawned, cloc[p].content) < MaxSpawns
    /\ \E process \in spawn_loop_message :
          cloc' = [cloc EXCEPT ![p].out = Append(@, Spawn(cloc[p].sid, cloc[p].content)),
                               ![p].process = process,
                               ![p].results = Append(@, process = "started")]
    /\ spawned' = count_spawn(spawned, cloc[p].content)
    /\ cpc' = [cpc EXCEPT ![p] = "done"]
    /\ UNCHANGED <<sm, fs, lock, now, store, config>>

\* The hook or the handler returns; its process ends or serves the next request.
Return(p) ==
    /\ cpc[p] = "done"
    /\ cpc' = [cpc EXCEPT ![p] = "idle"]
    /\ cloc' = [cloc EXCEPT ![p] = NoCall]
    /\ UNCHANGED <<sm, fs, lock, now, store, config, spawned>>

\* The steps of a stop hook after its first.
StopStep(p) ==
    \/ StopAddUser(p)
    \/ StopAddAssistant(p)
    \/ StopUpdateStatus(p)
    \/ StopCreate(p)
    \/ StopCheckLoop(p)
    \/ StopGoal(p)
    \/ StopContinue(p)
    \/ StopSpawnLoop(p)
    \/ StopLimit(p)
    \/ StopPromote(p)
    \/ StopSpawnQueued(p)

(***************************************************************************)
(* server.py: the timeout sweep, process_queued_messages and the loop      *)
(* controls                                                                *)
(***************************************************************************)

\* int(minutes_inactive) for an inactivity of h half minutes
whole_minutes(h) == IF h >= 0 THEN h \div 2 ELSE -((-h) \div 2)

\* The sweep's test of one session: a busy state and
\* minutes_inactive >= timeout_minutes.
timed_out_strictly(session, at, timeout_minutes) ==
    /\ is_busy(session.state)
    /\ at - session.last_activity > 2 * timeout_minutes

timed_out_whatever_state(session, at, timeout_minutes) ==
    at - session.last_activity >= 2 * timeout_minutes

timed_out(session, at, timeout_minutes) ==
    /\ is_busy(session.state)
    /\ at - session.last_activity >= 2 * timeout_minutes

\* The sweep's changes to a timed-out session.
reset_timed_out(session, at) ==
    [set_state(session, IDLE) EXCEPT
        !.loop_enabled = FALSE,
        !.messages = Append(@, SessionMessage("system",
                        Content("timed_out", whole_minutes(at - session.last_activity),
                                session.state))),
        !.last_activity = at]

\* The next session of the sweep's list, from position i on, that the loop
\* body resets; 0 when the loop ends without one.
next_timed_out(list, i, at, timeout_minutes) ==
    LET rest == {j \in DOMAIN list : j >= i /\ timed_out(list[j], at, timeout_minutes)} IN
    IF rest = {} THEN 0 ELSE First(rest)

\* The clock advances by half a minute.
Tick ==
    /\ now < MaxTime
    /\ now' = now + 1
    /\ UNCHANGED <<sm, fs, lock, cpc, cloc, store, config, spawned>>

\* check_and_reset_timed_out_sessions up to its first write: the timeout, now,
\* store.get_all_sessions() and the sessions passed over.  The list is kept as
\* it was loaded.
Sweep(p) ==
    /\ cpc[p] = "idle"
    /\ \E order \in get_all_sessions(store) :
          LET list == [i \in DOMAIN order |-> store[order[i]]]
              timeout_minutes == Get(config, "agent_timeout_minutes", 15)
              first == next_timed_out(list, 1, now, timeout_minutes)
          IN  /\ \A i \in DOMAIN list :
                    timed_out(list[i], now, timeout_minutes) => Len(list[i].messages) <= MaxLog
              /\ cloc' = [cloc EXCEPT ![p] =
                            [NoCall EXCEPT !.op = "sweep", !.at = now,
                                           !.list = list, !.i = first]]
              /\ cpc' = [cpc EXCEPT ![p] = IF first = 0 THEN "done" ELSE "sweep_reset"]
    /\ UNCHANGED <<sm, fs, lock, now, store, config, spawned>>

\* The loop body for a timed-out session, with its upsert, and the sessions
\* passed over after it; after the last one, check_timeouts_and_process_queues
\* goes through the ids that were reset.
SweepReset(p) ==
    /\ cpc[p] = "sweep_reset"
    /\ LET session == cloc[p].list[cloc[p].i]
           next == next_timed_out(cloc[p].list, cloc[p].i + 1, cloc[p].at,
                                  Get(config, "agent_timeout_minutes", 15))
       IN  /\ store' = upsert_session(store, reset_timed_out(session, cloc[p].at))
           /\ cloc' = [cloc EXCEPT ![p].reset = Append(@, session.session_id),
                                   ![p].i = next]
           /\ cpc' = [cpc EXCEPT ![p] = IF next = 0 THEN "pq_get" ELSE "sweep_reset"]
    /\ UNCHANGED <<sm, fs, lock, now, config, spawned>>

\* After a call of process_queued_messages: the next id, or the end.
after_pq(loc) == IF Len(loc.attempted) < Len(loc.reset) THEN "pq_get" ELSE "done"

\* process_queued_messages(session_id): store.get_session and the three
\* early returns.
PqGet(p) ==
    /\ cpc[p] = "pq_get"
    /\ LET sid == cloc[p].reset[Len(cloc[p].attempted) + 1]
           found == sid \in DOMAIN store
           session == IF found THEN store[sid] ELSE NoSession
           loc == [cloc[p] EXCEPT !.attempted = Append(@, sid), !.sid = sid,
                                  !.found = found, !.session = session]
       IN  /\ cloc' = [cloc EXCEPT ![p] = [loc EXCEPT !.existing = session]]
           /\ cpc' = [cpc EXCEPT ![p] =
                         IF found /\ session.state = IDLE /\ queued_messages(session) # {}
                         THEN "pq_promote"
                         ELSE after_pq(loc)]
    /\ UNCHANGED <<sm, fs, lock, now, store, config, spawned>>

\* next_msg.role = "user"; store.upsert_session(session)
PqPromote(p) ==
    /\ cpc[p] = "pq_promote"
    /\ store' = upsert_session(store, promote(cloc[p].session))
    /\ cloc' = [cloc EXCEPT ![p].session = promote(cloc[p].session),
                            ![p].content = next_content(cloc[p].session)]
    /\ cpc' = [cpc EXCEPT ![p] =
                  IF cloc[p].session.workspace_root # "" /\ cloc[p].session.conversation_id # ""
                  THEN "pq_spawn"
                  ELSE after_pq(cloc[p])]
    /\ UNCHANGED <<sm, fs, lock, now, config, spawned>>

\* spawn_auggie_message up to its await of the agent: auggie is not found or
\* create_subprocess_exec raises ("failed", the function returns False), or
\* the agent process is created ("running").
spawn_auggie_message == {"running", "failed"}

\* process.returncode after the agent has ended: 0, or another value.
returncodes == {"exit0", "exit1"}

\* await spawn_auggie_message(conversation_id, workspace_root, message_content):
\* shutil.which and asyncio.create_subprocess_exec
PqSpawn(p) ==
    /\ cpc[p] = "pq_spawn"
    /\ spawns_of(spawned, cloc[p].content) < MaxSpawns
    /\ \E process \in spawn_auggie_message :
          /\ cloc' = [cloc EXCEPT
                        ![p].out = Append(@, Spawn(cloc[p].session.conversation_id,
                                                   cloc[p].content)),
                        ![p].process = process,
                        ![p].results = IF process = "failed" THEN Append(@, FALSE) ELSE @]
          /\ cpc' = [cpc EXCEPT ![p] =
                        IF process = "failed" THEN after_pq(cloc[p]) ELSE "pq_communicate"]
    /\ spawned' = count_spawn(spawned, cloc[p].content)
    /\ UNCHANGED <<sm, fs, lock, now, store, config>>

\* The agent that a handler has spawned and awaits ends with a return code.
AgentExit(p) ==
    /\ cpc[p] = "pq_communicate"
    /\ cloc[p].process = "running"
    /\ \E returncode \in returncodes : cloc' = [cloc EXCEPT ![p].process = returncode]
    /\ UNCHANGED <<sm, fs, lock, cpc, now, store, config, spawned>>

\* stdout, stderr = await process.communicate(); return process.returncode == 0
PqCommunicate(p) ==
    /\ cpc[p] = "pq_communicate"
    /\ cloc[p].process \in returncodes
    /\ cloc' = [cloc EXCEPT ![p].results = Append(@, cloc[p].process = "exit0")]
    /\ cpc' = [cpc EXCEPT ![p] = after_pq(cloc[p])]
    /\ UNCHANGED <<sm, fs, lock, now, store, config, spawned>>

\* The steps of a sweep after its first.
SweepStep(p) ==
    \/ SweepReset(p)
    \/ PqGet(p)
    \/ PqPromote(p)
    \/ PqSpawn(p)
    \/ PqCommunicate(p)

\* reset_loop: store.get_session(session_id) and the 404
ResetLoop(p, sid) ==
    /\ cpc[p] = "idle"
    /\ sid \in DOMAIN store => Len(store[sid].messages) <= MaxLog
    /\ cloc' = [cloc EXCEPT ![p] =
                  [NoCall EXCEPT !.op = "reset_loop", !.sid = sid,
                                 !.found = sid \in DOMAIN store,
                                 !.session = IF sid \in DOMAIN store
                                             THEN store[sid] ELSE NoSession]]
    /\ cpc' = [cpc EXCEPT ![p] = IF sid \in DOMAIN store THEN "reset_upsert" ELSE "done"]
    /\ UNCHANGED <<sm, fs, lock, now, store, config, spawned>>

\* reset_loop: the counter, the loop, the state, the system message,
\* last_activity and the upsert; process_queued_messages follows.
ResetUpsert(p) ==
    /\ cpc[p] = "reset_upsert"
    /\ LET session == [set_state(cloc[p].session, IDLE) EXCEPT
                          !.loop_count = 0,
                          !.loop_enabled = FALSE,
                          !.messages = Append(@, SessionMessage("system",
                                          Content("manually_reset", 0, cloc[p].session.state))),
                          !.last_activity = now]
       IN  /\ store' = upsert_session(store, session)
           /\ cloc' = [cloc EXCEPT ![p].session = session, ![p].reset = <<cloc[p].sid>>]
    /\ cpc' = [cpc EXCEPT ![p] = "pq_get"]
    /\ UNCHANGED <<sm, fs, lock, now, config, spawned>>

\* pause_loop: store.get_session(session_id) and the 404
PauseLoop(p, sid) ==
    /\ cpc[p] = "idle"
    /\ cloc' = [cloc EXCEPT ![p] =
                  [NoCall EXCEPT !.op = "pause_loop", !.sid = sid,
                                 !.found = sid \in DOMAIN store,
                                 !.session = IF sid \in DOMAIN store
                                             THEN store[sid] ELSE NoSession]]
    /\ cpc' = [cpc EXCEPT ![p] = IF sid \in DOMAIN store THEN "pause_upsert" ELSE "done"]
    /\ UNCHANGED <<sm, fs, lock, now, store, config, spawned>>

\* pause_loop: session.loop_enabled = False; store.upsert_session(session)
PauseUpsert(p) ==
    /\ cpc[p] = "pause_upsert"
    /\ store' = upsert_session(store, [cloc[p].session EXCEPT !.loop_enabled = FALSE])
    /\ cloc' = [cloc EXCEPT ![p].session.loop_enabled = FALSE]
    /\ cpc' = [cpc EXCEPT ![p] = "done"]
    /\ UNCHANGED <<sm, fs, lock, now, config, spawned>>

(***************************************************************************)
(* Turn completions of one session: stop hooks run one after another on a  *)
(* session as the session_start hook and the loop controls left it.        *)
(***************************************************************************)

Configs == {custom_config, loop_config_only, empty_config}

LoopPromptNames == {None, "ship", "legacy", "bare", "gone"}

\* A session the session_start hook has made active, with its loop settings
\* and its messages.
Seeded(sid, loop_on, count, prompt_name, messages) ==
    [set_state(AgentSession(sid, "/ws", 0), ACTIVE) EXCEPT
        !.loop_enabled = loop_on,
        !.loop_count = count,
        !.loop_prompt_name = prompt_name,
        !.messages = messages]

LoopSeeds(cfg) ==
    LET max == Get(cfg, "max_loop_iterations", 50) IN
    {Seeded("s1", TRUE, count, name, messages) :
        count \in {max - 2, max - 1, max}, name \in LoopPromptNames,
        messages \in {<<>>, <<SessionMessage("queued", Prompt("q1"))>>}}
    \cup {Seeded("s1", FALSE, 0, None, messages) :
        messages \in {<<>>, <<SessionMessage("queued", Prompt("q1"))>>}}

LoopInit ==
    /\ sm = [phase |-> "off"]
    /\ fs = <<>>
    /\ lock = <<>>
    /\ now = 0
    /\ cpc = [c \in Callers |-> "idle"]
    /\ cloc = [c \in Callers |-> NoCall]
    /\ spawned = <<>>
    /\ config \in Configs
    /\ \/ store = <<>>
       \/ \E session \in LoopSeeds(config) : store = [sid \in {"s1"} |-> session]

\* No hook and no handler is running.
Quiet == \A c \in Callers : cpc[c] = "idle"

\* The process of the hook that runs: one hook at a time here.
Hook == CHOOSE p \in Hooks : TRUE

LoopNext ==
    LET p == Hook IN
        \/ /\ Quiet
           /\ \E user_prompt \in UserPrompts, agent_text \in ResponseIds :
                 StopHook(p, "s1", user_prompt, agent_text)
        \/ StopStep(p)
        \/ Return(p)

SpecLoop == LoopInit /\ [][LoopNext]_vars

\* A stop hook run of caller p has finished and has not returned yet.
StopDone(p) == cpc[p] = "done" /\ cloc[p].op = "stop"

\* The positions of the outputs of one kind in the outputs of a run.
Outputs(out, kind) == {i \in DOMAIN out : out[i].kind = kind}

\* The Loop Complete notifications of a run.
LoopComplete(out) == {i \in Outputs(out, "notify") : out[i].title = "Loop Complete"}

\* The response of a run signals completion for the session the run found:
\* it holds the end condition configured for the session's loop prompt as it
\* is written, or one of the configured completion phrases in any case.
Signals(session, n, cfg) ==
    LET text == agentTextResponse(n)
        end_condition == end_condition_of(loop_config_of(cfg, session.loop_prompt_name))
        phrases == Get(cfg, "completion_phrases", DEFAULT_COMPLETION_PHRASES)
    IN  \/ end_condition # <<>> /\ Contains(end_condition, text)
        \/ \E i \in DOMAIN phrases : Contains(lower(phrases[i]), lower(text))

\* C2: every persisted session's simplified status is the projection of its
\* state: active when the state is busy, stopped when it is Error, idle
\* otherwise.
C2_StatusIsProjection ==
    \A sid \in DOMAIN store : store[sid].status = from_state(store[sid].state)

\* C6: loop_count never exceeds max_loop_iterations, and a stop hook run on
\* a session whose loop is enabled, with a response that does not signal
\* completion, either starts below the bound, adds one to loop_count, leaves
\* the loop enabled and spawns the loop prompt once, or starts at the bound,
\* disables the loop, leaves loop_count alone, sends the iteration-limit
\* notification and spawns nothing; every such run below the bound brings
\* loop_count one closer to it, so the loop is disabled after at most
\* max_loop_iterations increments.
C6_LoopBounded ==
    /\ \A sid \in DOMAIN store :
          store[sid].loop_count <= Get(config, "max_loop_iterations", 50)
    /\ \A p \in Callers :
          (/\ StopDone(p)
           /\ cloc[p].existed
           /\ cloc[p].existing.loop_enabled
           /\ ~Signals(cloc[p].existing, cloc[p].agent_text, config)) =>
             LET max == Get(config, "max_loop_iterations", 50)
                 before == cloc[p].existing
                 after == store[cloc[p].sid]
                 out == cloc[p].out
             IN  IF before.loop_count < max
                 THEN /\ after.loop_count = before.loop_count + 1
                      /\ after.loop_enabled
                      /\ Cardinality(Outputs(out, "spawn")) = 1
                      /\ \A i \in Outputs(out, "spawn") : out[i].body.kind = "prompt"
                      /\ LoopComplete(out) = {}
                 ELSE /\ ~after.loop_enabled
                      /\ after.loop_count = before.loop_count
                      /\ Cardinality(LoopComplete(out)) = 1
                      /\ \A i \in LoopComplete(out) :
                            out[i].body = Content("reached_iterations", max, "")
                      /\ Outputs(out, "spawn") = {}

\* A run that found loop_count at the default bound of 50, after an earlier
\* run that left its response in the log, has disabled the loop.
C6_Witness ==
    \E p \in Callers :
        /\ StopDone(p)
        /\ config = empty_config
        /\ cloc[p].existed
        /\ cloc[p].existing.loop_enabled
        /\ cloc[p].existing.loop_count = 50
        /\ \E i \in DOMAIN cloc[p].existing.messages :
              cloc[p].existing.messages[i] = SessionMessage("assistant", Text(1))
        /\ cloc[p].agent_text = 1
        /\ ~store[cloc[p].sid].loop_enabled

\* C7: a stop hook run on a session whose loop is enabled, with a response
\* that holds the configured end condition verbatim or a configured
\* completion phrase in any case, leaves loop_enabled false and loop_count
\* unchanged, sends one goal-achieved notification and spawns nothing,
\* whatever loop_count is.
C7_GoalStopsLoop ==
    \A p \in Callers :
        (/\ StopDone(p)
         /\ cloc[p].existed
         /\ cloc[p].existing.loop_enabled
         /\ Signals(cloc[p].existing, cloc[p].agent_text, config)) =>
            LET before == cloc[p].existing
                after == store[cloc[p].sid]
                out == cloc[p].out
            IN  /\ ~after.loop_enabled
                /\ after.loop_count = before.loop_count
                /\ Cardinality(LoopComplete(out)) = 1
                /\ \A i \in LoopComplete(out) :
                      out[i].body = Content("goal_achieved", before.loop_count, "")
                /\ Outputs(out, "spawn") = {}

\* A run at the iteration bound whose response holds a default completion
\* phrase in capitals has taken the goal-achieved outcome.
C7_Witness ==
    \E p \in Callers :
        /\ StopDone(p)
        /\ cloc[p].existed
        /\ cloc[p].existing.loop_enabled
        /\ cloc[p].existing.loop_count >= Get(config, "max_loop_iterations", 50)
        /\ cloc[p].agent_text = 4
        /\ "completion_phrases" \notin DOMAIN config
        /\ ~store[cloc[p].sid].loop_enabled
        /\ LoopComplete(cloc[p].out) # {}

(***************************************************************************)
(* The timeout sweep of the dashboard server over a sessions file, as time *)
(* passes.  The file may hold a session in any state of the schema.        *)
(***************************************************************************)

\* A stored session in a state, with its loop flag, its messages and its
\* last activity.
Stored(sid, state, loop_on, messages, t) ==
    [set_state(AgentSession(sid, "/ws", t), state) EXCEPT
        !.loop_enabled = loop_on,
        !.messages = messages]

SweepInit ==
    /\ sm = [phase |-> "off"]
    /\ fs = <<>>
    /\ lock = <<>>
    /\ now = 1
    /\ cpc = [c \in Callers |-> "idle"]
    /\ cloc = [c \in Callers |-> NoCall]
    /\ spawned = <<>>
    /\ config = custom_config
    /\ \E state1 \in SessionState, loop_on \in BOOLEAN,
          messages1 \in {<<>>, <<SessionMessage("queued", Prompt("q1"))>>} :
          LET s1 == Stored("s1", state1, loop_on, messages1, 0) IN
          \/ store = [sid \in {"s1"} |-> s1]
          \/ \E state2 \in {IDLE, ACTIVE}, t \in {0, 1},
                messages2 \in {<<>>, <<SessionMessage("queued", Prompt("q2"))>>} :
                store = [sid \in {"s1", "s2"} |->
                            IF sid = "s1" THEN s1
                            ELSE Stored("s2", state2, FALSE, messages2, t)]

SweepNext ==
    \/ Tick
    \/ Quiet /\ Sweep(Server)
    \/ SweepStep(Server)
    \/ AgentExit(Server)
    \/ Return(Server)

SpecSweep == SweepInit /\ [][SweepNext]_vars

\* A sweep of caller p has finished and has not returned yet.
SweepDone(p) == cpc[p] = "done" /\ cloc[p].op = "sweep"

\* A session is due for a reset at a time: its state is busy and its last
\* activity is at least the configured threshold in the past.
Due(session, at) ==
    /\ session.state \in {ACTIVE, UNDER_REVIEW, LOOP_PROMPTING}
    /\ at - session.last_activity >= 2 * Get(config, "agent_timeout_minutes", 15)

\* The whole minutes in h half minutes.
WholeMinutes(h) == CHOOSE m \in 0..h : 2 * m <= h /\ h < 2 * (m + 1)

\* How many times an id occurs in a list of ids.
Times(id, ids) == Cardinality({k \in DOMAIN ids : ids[k] = id})

\* C9: when a sweep has finished, every session that was due when the sweep
\* read the store is persisted Idle with loop_enabled false and one more
\* message, a system message citing the whole minutes elapsed and the state
\* it was reset from, and queue processing was attempted once for it; every
\* other session is as it was and no queue processing was attempted for it.
C9_SweepResetsExactlyTimedOut ==
    \A p \in Callers :
        SweepDone(p) =>
            LET list == cloc[p].list
                at == cloc[p].at
            IN  /\ DOMAIN store = {list[i].session_id : i \in DOMAIN list}
                /\ \A i \in DOMAIN list :
                      LET old == list[i]
                          new == store[old.session_id]
                      IN  IF Due(old, at)
                          THEN /\ new.state = IDLE
                               /\ new.status = "idle"
                               /\ ~new.loop_enabled
                               /\ Len(new.messages) = Len(old.messages) + 1
                               /\ new.messages[Len(new.messages)] =
                                     SessionMessage("system",
                                        Content("timed_out",
                                                WholeMinutes(at - old.last_activity),
                                                old.state))
                               /\ \A j \in DOMAIN old.messages :
                                     /\ new.messages[j].content = old.messages[j].content
                                     /\ \/ new.messages[j].role = old.messages[j].role
                                        \/ /\ old.messages[j].role = "queued"
                                           /\ new.messages[j].role = "user"
                               /\ Times(old.session_id, cloc[p].attempted) = 1
                          ELSE /\ new = old
                               /\ Times(old.session_id, cloc[p].attempted) = 0

\* A sweep has reset a session under review after a minute and a half, and
\* has left another session alone.
C9_Witness ==
    \E p \in Callers :
        /\ SweepDone(p)
        /\ \E i, j \in DOMAIN cloc[p].list :
              /\ cloc[p].list[i].state = UNDER_REVIEW
              /\ cloc[p].at - cloc[p].list[i].last_activity = 3
              /\ store[cloc[p].list[i].session_id].state = IDLE
              /\ ~Due(cloc[p].list[j], cloc[p].at)
              /\ store[cloc[p].list[j].session_id] = cloc[p].list[j]

\* C10: a sweep over a store in which no session is due does nothing: it
\* ends at once, having reset no session, attempted no queue processing and
\* issued no spawn, and the store is as the sweep read it.
C10_SweepIdempotent ==
    \A p \in Callers :
        (/\ cloc[p].op = "sweep"
         /\ \A i \in DOMAIN cloc[p].list : ~Due(cloc[p].list[i], cloc[p].at)) =>
            /\ cpc[p] = "done"
            /\ cloc[p].reset = <<>>
            /\ cloc[p].attempted = <<>>
            /\ cloc[p].out = <<>>
            /\ DOMAIN store = {cloc[p].list[i].session_id : i \in DOMAIN cloc[p].list}
            /\ \A i \in DOMAIN cloc[p].list :
                  store[cloc[p].list[i].session_id] = cloc[p].list[i]

\* A sweep right after the sweep that reset a session, with another session
\* busy and not yet due, has done nothing.
C10_Witness ==
    \E p \in Callers :
        /\ SweepDone(p)
        /\ cloc[p].reset = <<>>
        /\ \E i, j \in DOMAIN cloc[p].list :
              /\ cloc[p].list[i].messages # <<>>
              /\ cloc[p].list[i].messages[Len(cloc[p].list[i].messages)].content.kind
                    = "timed_out"
              /\ cloc[p].list[i].last_activity = cloc[p].at
              /\ cloc[p].list[j].state = ACTIVE

(***************************************************************************)
(* A stop hook and the dashboard server at work on the same session: the   *)
(* hook is a process of its own, so its store calls and the server's       *)
(* interleave.                                                             *)
(***************************************************************************)

RaceInit ==
    /\ sm = [phase |-> "off"]
    /\ fs = <<>>
    /\ lock = <<>>
    /\ now = 2 * TimeoutMinutes
    /\ cpc = [c \in Callers |-> "idle"]
    /\ cloc = [c \in Callers |-> NoCall]
    /\ spawned = <<>>
    /\ config = custom_config
    /\ \/ store = <<>>
       \/ \E loop_on \in BOOLEAN, count \in {0, MaxLoopIterations},
             messages \in {<<>>, <<SessionMessage("queued", Prompt("q1"))>>} :
             store = [sid \in {"s1"} |-> Seeded("s1", loop_on, count, None, messages)]

RaceNext ==
    \/ \E user_prompt \in UserPrompts, agent_text \in 0..2 :
          StopHook(Hook, "s1", user_prompt, agent_text)
    \/ StopStep(Hook)
    \/ Return(Hook)
    \/ PauseLoop(Server, "s1")
    \/ PauseUpsert(Server)
    \/ ResetLoop(Server, "s1")
    \/ ResetUpsert(Server)
    \/ Sweep(Server)
    \/ SweepStep(Server)
    \/ AgentExit(Server)
    \/ Return(Server)

SpecRace == RaceInit /\ [][RaceNext]_vars

\* C4: no caller's committed change is overwritten by another caller's
\* upsert.  Nothing here enables a loop, so when a pause_loop request has
\* committed and no other caller is in the middle of a run, the persisted
\* session has its loop disabled.
C4_NoLostUpdate ==
    \A p \in Callers :
        (/\ cpc[p] = "done"
         /\ cloc[p].op = "pause_loop"
         /\ cloc[p].found
         /\ \A q \in Callers \ {p} : cpc[q] \in {"idle", "done"}) =>
            ~store[cloc[p].sid].loop_enabled

\* C5: every queued message is handed to the spawn capability at most once.
C5_SpawnedAtMostOnce ==
    \A content \in DOMAIN spawned : spawned[content] <= 1

(***************************************************************************)
(* Queued messages: stop hooks, loop resets and sweeps, one at a time, on  *)
(* a session whose log holds queued messages among others.                 *)
(***************************************************************************)

\* The entries of the seeded logs: an answer of the agent and two queued
\* messages of the dashboard.
QueueEntries ==
    {SessionMessage("assistant", Text(1)),
     SessionMessage("queued", Prompt("q1")),
     SessionMessage("queued", Prompt("q2"))}

\* The logs of at most MaxLog of these entries.
QueueLogs ==
    UNION {[1..n -> QueueEntries] : n \in 0..MaxLog}

QueueInit ==
    /\ sm = [phase |-> "off"]
    /\ fs = <<>>
    /\ lock = <<>>
    /\ now = 2 * TimeoutMinutes
    /\ cpc = [c \in Callers |-> "idle"]
    /\ cloc = [c \in Callers |-> NoCall]
    /\ spawned = <<>>
    /\ config = custom_config
    /\ \E state \in {IDLE, ACTIVE}, messages \in QueueLogs :
          store = [sid \in {"s1"} |-> Stored("s1", state, FALSE, messages, 0)]

QueueNext ==
    \/ /\ Quiet
       /\ \E agent_text \in {0, 1} : StopHook(Hook, "s1", "", agent_text)
    \/ StopAddAssistant(Hook)
    \/ StopUpdateStatus(Hook)
    \/ StopCheckLoop(Hook)
    \/ StopPromote(Hook)
    \/ StopSpawnQueued(Hook)
    \/ Return(Hook)
    \/ Quiet /\ ResetLoop(Server, "s1")
    \/ ResetUpsert(Server)
    \/ Quiet /\ Sweep(Server)
    \/ SweepStep(Server)
    \/ AgentExit(Server)
    \/ Return(Server)

SpecQueue == QueueInit /\ [][QueueNext]_vars

\* A log with the role of its earliest queued entry rewritten to user, and
\* nothing else changed; the log itself when nothing is queued.
EarliestPromoted(log) ==
    LET queued == {i \in DOMAIN log : log[i].role = "queued"} IN
    [i \in DOMAIN log |->
        IF i \in queued /\ (\A j \in queued : i <= j)
        THEN [role |-> "user", content |-> log[i].content]
        ELSE log[i]]

\* The log a stop hook run works on: the log it found and the answer it
\* recorded.
StopLog(loc) ==
    loc.existing.messages \o
        (IF loc.agent_text # 0
         THEN <<SessionMessage("assistant", Text(loc.agent_text))>> ELSE <<>>)

\* A call of process_queued_messages by caller p has gone past its promotion.
PqEvaluated(p) ==
    /\ cloc[p].op \in {"sweep", "reset_loop"}
    /\ cloc[p].attempted # <<>>
    /\ cpc[p] \in {"pq_spawn", "pq_communicate", "pq_get", "done"}

\* C11: one queued-message evaluation (a stop hook run with the loop off, or
\* a call of process_queued_messages on an idle session) leaves the log as
\* it was but for the role of the earliest queued entry, which is user
\* afterwards: one message at most is promoted, the number, the order and
\* the contents of the entries stay, and evaluations one after another
\* promote in queue order.
C11_PromotesEarliestOnly ==
    \A p \in Callers :
        /\ StopDone(p) /\ cloc[p].existed =>
              store[cloc[p].sid].messages = EarliestPromoted(StopLog(cloc[p]))
        /\ PqEvaluated(p) /\ cloc[p].found =>
              store[cloc[p].sid].messages =
                 IF cloc[p].existing.state = IDLE
                 THEN EarliestPromoted(cloc[p].existing.messages)
                 ELSE cloc[p].existing.messages

\* A loop reset has evaluated a log with two queued messages and the first
\* of them only is a user message now.
C11_Witness ==
    /\ cpc[Server] = "done"
    /\ cloc[Server].op = "reset_loop"
    /\ Cardinality(queued_messages(cloc[Server].existing)) >= 2
    /\ Cardinality(queued_messages(store["s1"])) =
          Cardinality(queued_messages(cloc[Server].existing)) - 1
    /\ Len(cloc[Server].results) = 1

\* C12: a step that promotes a queued message of a session (one queued entry
\* fewer in the persisted log) is taken only while the persisted state of the
\* session is Idle.
C12_PromotesOnlyWhenIdle ==
    [][\A sid \in DOMAIN store :
          (/\ sid \in DOMAIN store'
           /\ Cardinality(queued_messages(store'[sid]))
                 < Cardinality(queued_messages(store[sid])))
          => store[sid].state = IDLE]_vars

\* C13: the persisted state of a session changes only as process_event
\* changes it: from s to t when some event's first applicable entry of the
\* transition table leads from s to t and its guard holds on the session.
C13_OnlyTableTransitions ==
    [][\A sid \in DOMAIN store :
          (sid \in DOMAIN store' /\ store'[sid].state # store[sid].state)
          => \E event \in Events :
                /\ process_event(store[sid], event).success
                /\ process_event(store[sid], event).new_state = store'[sid].state]_vars

\* C14: after a stop hook run for an existing session whose persisted state
\* was Active, the persisted state is Active no longer; with the loop off and
\* no message queued the session is Idle again.
C14_StopLeavesActive ==
    \A p \in Callers :
        (/\ StopDone(p)
         /\ cloc[p].existed
         /\ cloc[p].existing.state = ACTIVE
         /\ cloc[p].sid \in DOMAIN store)
        => /\ store[cloc[p].sid].state # ACTIVE
           /\ (~cloc[p].existing.loop_enabled /\ queued_messages(cloc[p].existing) = {})
                 => store[cloc[p].sid].state = IDLE

\* The prompt text the configuration holds for a loop prompt name: the text
\* of the catalog entry of that name, in the new or the legacy format, and
\* the built-in default prompt when no name is selected or the catalog has
\* no entry of that name.
ConfiguredPrompt(cfg, prompt_name) ==
    LET catalog == IF "loop_prompts" \in DOMAIN cfg THEN cfg.loop_prompts ELSE <<>> IN
    IF prompt_name = None \/ prompt_name \notin DOMAIN catalog
    THEN default_config.prompt
    ELSE IF "str" \in DOMAIN catalog[prompt_name]
    THEN catalog[prompt_name].str
    ELSE catalog[prompt_name].prompt

\* C15: a stop hook run on a session whose loop is enabled, with a response
\* that does not signal completion: at or above max_loop_iterations (50 by
\* default) the loop is disabled and persisted, one iteration-limit
\* notification is sent and nothing is spawned; below it loop_count is one
\* more and persisted, and one spawn is issued, for the session's
\* conversation, with the prompt text configured for the session's loop
\* prompt name (the built-in default prompt when no name is selected).
C15_LoopContinuation ==
    \A p \in Callers :
        (/\ StopDone(p)
         /\ cloc[p].existed
         /\ cloc[p].existing.loop_enabled
         /\ ~Signals(cloc[p].existing, cloc[p].agent_text, config)) =>
           LET max == IF "max_loop_iterations" \in DOMAIN config
                      THEN config.max_loop_iterations ELSE 50
               before == cloc[p].existing
               after == store[cloc[p].sid]
               spawns == SelectSeq(cloc[p].out, LAMBDA o : o.kind = "spawn")
               limits == SelectSeq(cloc[p].out, LAMBDA o : o.kind = "notify"
                                                          /\ o.title = "Loop Complete")
           IN  IF before.loop_count >= max
               THEN /\ after = [before EXCEPT !.loop_enabled = FALSE,
                                              !.status = after.status,
                                              !.current_task = after.current_task,
                                              !.messages = after.messages,
                                              !.last_activity = after.last_activity]
                    /\ limits = <<Notification("Loop Complete",
                                               Content("reached_iterations", max, ""))>>
                    /\ spawns = <<>>
               ELSE /\ after = [before EXCEPT !.loop_count = before.loop_count + 1,
                                              !.status = after.status,
                                              !.current_task = after.current_task,
                                              !.messages = after.messages,
                                              !.last_activity = after.last_activity]
                    /\ limits = <<>>
                    /\ spawns = <<Spawn(before.conversation_id,
                                        Content("prompt", 0,
                                                ConfiguredPrompt(config, before.loop_prompt_name)))>>

\* A run below the bound on a session whose loop prompt name has a catalog
\* entry has added one to loop_count and spawned that entry's prompt.
C15_Witness ==
    \E p \in Callers :
        /\ StopDone(p)
        /\ config = custom_config
        /\ cloc[p].existed
        /\ cloc[p].existing.loop_enabled
        /\ cloc[p].existing.loop_prompt_name = "ship"
        /\ cloc[p].agent_text = 1
        /\ store[cloc[p].sid].loop_count = cloc[p].existing.loop_count + 1
        /\ \E i \in DOMAIN cloc[p].out :
              cloc[p].out[i] = Spawn("s1", Content("prompt", 0, "Keep going until it ships."))

\* C16: when the spawn of a follow-up fails, the persisted session is as it
\* was before the follow-up was attempted: after a stop hook run whose spawn
\* failed, loop_count is the one the run found and the log is the one the
\* run worked on, the message still queued; after a call of
\* process_queued_messages whose spawn failed, the log is the one the call
\* loaded.
C16_FailedSpawnLeavesSession ==
    \A p \in Callers :
        /\ (StopDone(p) /\ cloc[p].existed /\ cloc[p].results = <<FALSE>>) =>
              /\ store[cloc[p].sid].loop_count = cloc[p].existing.loop_count
              /\ store[cloc[p].sid].messages = StopLog(cloc[p])
        /\ (/\ PqEvaluated(p)
            /\ cpc[p] = "done"
            /\ cloc[p].found
            /\ cloc[p].results # <<>>
            /\ ~cloc[p].results[Len(cloc[p].results)]) =>
              store[cloc[p].sid].messages = cloc[p].existing.messages

\* C17: an operation that has spawned an agent goes on and returns whether
\* or not the agent has ended: while the agent it started is running, the
\* operation can take its next step.
C17_NeverAwaitsAgent ==
    \A p \in Callers :
        (cpc[p] \notin {"idle", "done"} /\ cloc[p].process = "running")
        => ENABLED SweepStep(p)

(***************************************************************************)
(* store.py: the methods of SessionStore, called by two processes.  Each   *)
(* call takes the lock of its method, reads the sessions file, changes and *)
(* writes the collection if it is a modifying method, and drops the lock.  *)
(***************************************************************************)

MaxCalls == 2

StoreMethods ==
    {"get_session", "get_all_sessions", "upsert_session", "update_session_status",
     "add_message", "add_dashboard_message", "get_and_clear_dashboard_messages",
     "update_session_pid", "delete_session"}

\* Every method's lock as the other methods take it: shared.
file_lock_shared(method) == "sh"

\* with self._file_lock(exclusive=...): the flock mode of each method.
file_lock(method) ==
    IF method \in {"get_session", "get_all_sessions"} THEN get_session_lock
    ELSE IF method = "add_message" THEN add_message_lock
    ELSE "ex"

\* The value a method returns: None, a session, True or False, a list of
\* dashboard messages or a list of sessions.
Ret(v, session, list, sessions) ==
    [v |-> v, session |-> session, list |-> list, sessions |-> sessions]

\* What the body of a method comes to: its return value, the collection it
\* holds at its end and whether it calls _write_sessions.
Outcome(ret, sessions, write) == [ret |-> ret, sessions |-> sessions, write |-> write]

NotReturned == Ret("none", NoSession, <<>>, <<>>)

\* SessionStore.get_session
SessionStore_get_session(sessions, session_id) ==
    Outcome(IF session_id \in DOMAIN sessions
            THEN Ret("session", sessions[session_id], <<>>, <<>>)
            ELSE Ret("None", NoSession, <<>>, <<>>),
            sessions, FALSE)

\* SessionStore.get_all_sessions, for one order of the sessions of equal
\* last_activity
SessionStore_get_all_sessions(sessions, order) ==
    Outcome(Ret("sessions", NoSession, <<>>, [i \in DOMAIN order |-> sessions[order[i]]]),
            sessions, FALSE)

\* upsert_session that writes a collection of the one session.
SessionStore_upsert_session_alone(sessions, session) ==
    Outcome(Ret("None", NoSession, <<>>, <<>>),
            [sid \in {session.session_id} |-> session], TRUE)

\* SessionStore.upsert_session
SessionStore_upsert_session(sessions, session) ==
    Outcome(Ret("None", NoSession, <<>>, <<>>),
            [sid \in DOMAIN sessions \cup {session.session_id} |->
                IF sid = session.session_id THEN session ELSE sessions[sid]],
            TRUE)

\* SessionStore.update_session_status
SessionStore_update_session_status(sessions, session_id, status, current_task, t) ==
    IF session_id \notin DOMAIN sessions
    THEN Outcome(Ret("None", NoSession, <<>>, <<>>), sessions, FALSE)
    ELSE LET session == [sessions[session_id] EXCEPT
                            !.status = status,
                            !.last_activity = t,
                            !.current_task = IF current_task # None THEN current_task ELSE @]
         IN  Outcome(Ret("session", session, <<>>, <<>>),
                     [sessions EXCEPT ![session_id] = session], TRUE)

\* SessionStore.add_message
SessionStore_add_message(sessions, session_id, message, t) ==
    IF session_id \notin DOMAIN sessions
    THEN Outcome(Ret("False", NoSession, <<>>, <<>>), sessions, FALSE)
    ELSE Outcome(Ret("True", NoSession, <<>>, <<>>),
                 [sessions EXCEPT ![session_id].messages = Append(@, message),
                                  ![session_id].last_activity = t],
                 TRUE)

\* SessionStore.add_dashboard_message
SessionStore_add_dashboard_message(sessions, session_id, message) ==
    IF session_id \notin DOMAIN sessions
    THEN Outcome(Ret("False", NoSession, <<>>, <<>>), sessions, FALSE)
    ELSE Outcome(Ret("True", NoSession, <<>>, <<>>),
                 [sessions EXCEPT ![session_id].pending_dashboard_messages =
                                     Append(@, message)],
                 TRUE)

\* get_and_clear_dashboard_messages without the clear and the write.
SessionStore_get_dashboard_messages(sessions, session_id) ==
    IF session_id \notin DOMAIN sessions
    THEN Outcome(Ret("list", NoSession, <<>>, <<>>), sessions, FALSE)
    ELSE Outcome(Ret("list", NoSession, sessions[session_id].pending_dashboard_messages, <<>>),
                 sessions, FALSE)

\* SessionStore.get_and_clear_dashboard_messages
SessionStore_get_and_clear_dashboard_messages(sessions, session_id) ==
    IF session_id \notin DOMAIN sessions
    THEN Outcome(Ret("list", NoSession, <<>>, <<>>), sessions, FALSE)
    ELSE Outcome(Ret("list", NoSession, sessions[session_id].pending_dashboard_messages, <<>>),
                 [sessions EXCEPT ![session_id].pending_dashboard_messages = <<>>],
                 TRUE)

\* SessionStore.update_session_pid
SessionStore_update_session_pid(sessions, session_id, pid, t) ==
    IF session_id \notin DOMAIN sessions
    THEN Outcome(Ret("False", NoSession, <<>>, <<>>), sessions, FALSE)
    ELSE Outcome(Ret("True", NoSession, <<>>, <<>>),
                 [sessions EXCEPT ![session_id].agent_pid = <<pid>>,
                                  ![session_id].last_activity = t],
                 TRUE)

\* SessionStore.delete_session without its test of the id: the collection
\* is written whatever the id.
SessionStore_delete_session_unchecked(sessions, session_id) ==
    Outcome(Ret(IF session_id \in DOMAIN sessions THEN "True" ELSE "False",
                NoSession, <<>>, <<>>),
            [sid \in DOMAIN sessions \ {session_id} |-> sessions[sid]], TRUE)

\* SessionStore.delete_session
SessionStore_delete_session(sessions, session_id) ==
    IF session_id \notin DOMAIN sessions
    THEN Outcome(Ret("False", NoSession, <<>>, <<>>), sessions, FALSE)
    ELSE Outcome(Ret("True", NoSession, <<>>, <<>>),
                 [sid \in DOMAIN sessions \ {session_id} |-> sessions[sid]], TRUE)

\* SessionStore._write_sessions: the text written to the temporary file and
\* the temporary file renamed to the sessions file.
write_sessions(files, sessions) ==
    [files EXCEPT !["sessions.json"] =
                     File(dump([sid \in DOMAIN sessions |-> to_dict(sessions[sid])])),
                  !["sessions.tmp"] = NoFile]

\* The directory before the store has written anything.
NoFiles == [f \in {"sessions.json", "sessions.tmp"} |-> NoFile]

\* A caller outside any store method; upserted is the session of its last
\* upsert_session as long as no write of the store has followed it, and calls
\* the number of its calls.
NoStoreCall ==
    [op |-> "none", sid |-> "", session |-> NoSession, status |-> "idle",
     current_task |-> None, files |-> NoFiles,
     outcome |-> Outcome(NotReturned, <<>>, FALSE),
     upserted |-> NoSession, calls |-> 0]

\* The calls made so far, returned or not.
RECURSIVE StoreCalls(_)
StoreCalls(cs) ==
    IF cs = {} THEN 0
    ELSE LET c == CHOOSE x \in cs : TRUE IN cloc[c].calls + StoreCalls(cs \ {c})

StoreIds == {"s1", "s2"}

\* The sessions passed to upsert_session: a new session, and one whose
\* status is not the one of its state, for each id, with an empty log and
\* the optional fields unset; and one with a log and the optional fields set.
UpsertSessions ==
    {[AgentSession(sid, "/ws", 0) EXCEPT !.state = state] :
        sid \in StoreIds, state \in {IDLE, ACTIVE}}
    \cup {[AgentSession("s2", "/ws", 1) EXCEPT
              !.state = LOOP_PROMPTING, !.status = "active",
              !.current_task = "go", !.agent_pid = <<7>>,
              !.loop_enabled = TRUE, !.loop_count = 1,
              !.loop_prompt_name = "ship", !.loop_started_at = <<1>>,
              !.review_constraints = "strict",
              !.messages = <<SessionMessage("user", Prompt("go"))>>]}

StoreInit ==
    /\ sm = [phase |-> "off"]
    /\ now = 1
    /\ fs \in {NoFiles,
               write_sessions(NoFiles, [sid \in {"s1"} |-> AgentSession("s1", "/ws", 0)]),
               write_sessions(NoFiles,
                   [sid \in {"s1"} |->
                       [AgentSession("s1", "/ws", 0) EXCEPT
                           !.pending_dashboard_messages = <<0>>]])}
    /\ lock = [c \in Callers |-> "none"]
    /\ cpc = [c \in Callers |-> "idle"]
    /\ cloc = [c \in Callers |-> NoStoreCall]
    /\ store = <<>>
    /\ config = <<>>
    /\ spawned = <<>>

\* A method is called: fcntl.flock(fd, lock_type) has returned.
StoreFlock(c, method, sid) ==
    /\ cpc[c] = "idle"
    /\ StoreCalls(Callers) < MaxCalls
    /\ CanLock(c, file_lock(method))
    /\ lock' = [lock EXCEPT ![c] = file_lock(method)]
    /\ cpc' = [cpc EXCEPT ![c] = "store_read"]
    /\ \E session \in IF method = "upsert_session"
                      THEN {u \in UpsertSessions : u.session_id = sid} ELSE {NoSession},
          task \in IF method = "update_session_status"
                   THEN {<<"active", None>>, <<"idle", "go">>} ELSE {<<"idle", None>>} :
          LET status == task[1]
              current_task == task[2]
          IN
          cloc' = [cloc EXCEPT ![c].op = method, ![c].sid = sid,
                               ![c].session = session, ![c].status = status,
                               ![c].current_task = current_task,
                               ![c].outcome = Outcome(NotReturned, <<>>, FALSE),
                               ![c].calls = @ + 1]
    /\ UNCHANGED <<sm, fs, now, store, config, spawned>>

\* The method left by an exception of _read_sessions.
Raised == Ret("raised", NoSession, <<>>, <<>>)

\* sessions = self._read_sessions() and the body of the method up to its
\* return or its call of _write_sessions; an exception of _read_sessions
\* leaves the method through the finally of _file_lock.
StoreRead(c) ==
    /\ cpc[c] = "store_read"
    /\ LET sessions == read_sessions(fs)
           op == cloc[c].op
           sid == cloc[c].sid
       IN  \E order \in IF op = "get_all_sessions"
                        THEN get_all_sessions(sessions) ELSE {<<>>} :
             LET outcome ==
                   IF read_sessions_raises(fs) THEN Outcome(Raised, <<>>, FALSE) ELSE
                   CASE op = "get_session" -> SessionStore_get_session(sessions, sid)
                     [] op = "get_all_sessions" ->
                          SessionStore_get_all_sessions(sessions, order)
                     [] op = "upsert_session" ->
                          SessionStore_upsert_session(sessions, cloc[c].session)
                     [] op = "update_session_status" ->
                          SessionStore_update_session_status(sessions, sid, cloc[c].status,
                                                             cloc[c].current_task, now)
                     [] op = "add_message" ->
                          SessionStore_add_message(sessions, sid,
                              SessionMessage("user", Prompt("go")), now)
                     [] op = "add_dashboard_message" ->
                          SessionStore_add_dashboard_message(sessions, sid, 1)
                     [] op = "get_and_clear_dashboard_messages" ->
                          SessionStore_get_and_clear_dashboard_messages(sessions, sid)
                     [] op = "update_session_pid" ->
                          SessionStore_update_session_pid(sessions, sid, 7, now)
                     [] OTHER -> SessionStore_delete_session(sessions, sid)
             IN  /\ cloc' = [cloc EXCEPT ![c].files = fs, ![c].outcome = outcome]
                 /\ cpc' = [cpc EXCEPT ![c] =
                               IF outcome.write THEN "store_write" ELSE "store_unlock"]
    /\ UNCHANGED <<sm, fs, lock, now, store, config, spawned>>

\* self._write_sessions(sessions)
StoreWrite(c) ==
    /\ cpc[c] = "store_write"
    /\ fs' = write_sessions(fs, cloc[c].outcome.sessions)
    /\ cloc' = [d \in Callers |->
                  [cloc[d] EXCEPT !.upserted = IF d = c /\ cloc[c].op = "upsert_session"
                                               THEN cloc[c].session ELSE NoSession]]
    /\ cpc' = [cpc EXCEPT ![c] = "store_unlock"]
    /\ UNCHANGED <<sm, lock, now, store, config, spawned>>

\* _file_lock without the finally: an exception skips the release.
StoreUnlockUnlessRaised(c) ==
    /\ cpc[c] = "store_unlock"
    /\ cloc[c].outcome.ret # Raised
    /\ lock' = [lock EXCEPT ![c] = "none"]
    /\ cpc' = [cpc EXCEPT ![c] = "idle"]
    /\ cloc' = [cloc EXCEPT ![c] = [NoStoreCall EXCEPT !.upserted = cloc[c].upserted,
                                                       !.calls = cloc[c].calls]]
    /\ UNCHANGED <<sm, fs, now, store, config, spawned>>

\* _file_lock: finally: fcntl.flock(fd, LOCK_UN); os.close(fd); the method
\* returns.
StoreUnlock(c) ==
    /\ cpc[c] = "store_unlock"
    /\ lock' = [lock EXCEPT ![c] = "none"]
    /\ cpc' = [cpc EXCEPT ![c] = "idle"]
    /\ cloc' = [cloc EXCEPT ![c] = [NoStoreCall EXCEPT !.upserted = cloc[c].upserted,
                                                       !.calls = cloc[c].calls]]
    /\ UNCHANGED <<sm, fs, now, store, config, spawned>>

StoreNext ==
    \E c \in Callers :
        \/ \E method \in StoreMethods, sid \in StoreIds : StoreFlock(c, method, sid)
        \/ StoreRead(c)
        \/ StoreWrite(c)
        \/ StoreUnlock(c)

SpecStore == StoreInit /\ [][StoreNext]_vars

\* The callers inside a modifying method, and those inside a read-only one.
Modifying == StoreMethods \ {"get_session", "get_all_sessions"}

InsideWrite == {c \in Callers : cpc[c] # "idle" /\ cloc[c].op \in Modifying}

InsideRead == {c \in Callers : cpc[c] # "idle" /\ cloc[c].op \notin Modifying}

\* C18: one caller at most is inside a modifying method of the store; no
\* caller is inside a read-only method while one is inside a modifying one;
\* a modifying method holds the exclusive lock from before its read to after
\* its write, and writes the collection it read with its own change only (the
\* file it writes over is the file it read); a read-only method reads under
\* the shared lock.
C18_LockDiscipline ==
    /\ Cardinality(InsideWrite) <= 1
    /\ InsideWrite # {} => InsideRead = {}
    /\ \A c \in InsideWrite :
          /\ lock[c] = "ex"
          /\ cpc[c] = "store_write" => fs = cloc[c].files
    /\ \A c \in InsideRead :
          /\ lock[c] = "sh"
          /\ cpc[c] = "store_unlock" => fs = cloc[c].files

\* A caller is about to write while the other one waits in no method: the
\* two callers have both called modifying methods, one after the other.
C18_Witness ==
    \E c, d \in Callers :
        /\ c # d
        /\ cpc[c] = "store_write"
        /\ cloc[c].op = "add_message"
        /\ cloc[d].upserted # NoSession
        /\ cpc[d] = "idle"
        /\ ~CanLock(d, "sh")

\* C19: get_session(s.session_id) after upsert_session(s), with no write of
\* the store in between, returns a session equal to s in every field: the
\* state and the status as they were, even when the status is not the one
\* of the state, the empty log and the unset optional fields.
C19_UpsertGetRoundTrip ==
    \A c \in Callers :
        (/\ cpc[c] = "store_unlock"
         /\ cloc[c].op = "get_session"
         /\ cloc[c].upserted # NoSession
         /\ cloc[c].upserted.session_id = cloc[c].sid)
        => cloc[c].outcome.ret = Ret("session", cloc[c].upserted, <<>>, <<>>)

\* A caller has upserted a session in state active with status idle, an
\* empty log and no optional field set, and its get_session has returned it.
C19_Witness ==
    \E c \in Callers :
        /\ cpc[c] = "store_unlock"
        /\ cloc[c].op = "get_session"
        /\ cloc[c].upserted = [AgentSession(cloc[c].sid, "/ws", 0) EXCEPT !.state = ACTIVE]
        /\ cloc[c].upserted.status = "idle"
        /\ cloc[c].upserted.messages = <<>>
        /\ cloc[c].upserted.current_task = None
        /\ cloc[c].upserted.agent_pid = Unset
        /\ cloc[c].upserted.loop_prompt_name = None
        /\ cloc[c].upserted.loop_started_at = Unset
        /\ cloc[c].upserted.review_constraints = None
        /\ cloc[c].outcome.ret.v = "session"
        /\ cloc[c].outcome.ret.session = cloc[c].upserted

\* The value each method returns for an id the collection does not hold.
NotFound(method) ==
    CASE method \in {"get_session", "update_session_status"} ->
            Ret("None", NoSession, <<>>, <<>>)
      [] method = "get_and_clear_dashboard_messages" -> Ret("list", NoSession, <<>>, <<>>)
      [] OTHER -> Ret("False", NoSession, <<>>, <<>>)

\* C20: get_session, update_session_status, add_message,
\* add_dashboard_message, get_and_clear_dashboard_messages, update_session_pid
\* and delete_session, called with an id the collection does not hold, return
\* their not-found value (None, None, False, False, the empty list, False,
\* False) without writing, and leave the files of the store as they were.
C20_UnknownIdNotFound ==
    \A c \in Callers :
        (/\ cpc[c] \in {"store_write", "store_unlock"}
         /\ cloc[c].op \in StoreMethods \ {"get_all_sessions", "upsert_session"}
         /\ cloc[c].sid \notin DOMAIN read_sessions(cloc[c].files))
        => /\ cpc[c] = "store_unlock"
           /\ cloc[c].outcome.ret = NotFound(cloc[c].op)
           /\ ~cloc[c].outcome.write
           /\ fs = cloc[c].files

\* delete_session has returned False for an id that an earlier delete_session
\* had removed from the collection.
C20_Witness ==
    \E c, d \in Callers :
        /\ cpc[c] = "store_unlock"
        /\ cloc[c].op = "delete_session"
        /\ cloc[c].sid = "s1"
        /\ fs["sessions.json"].exists
        /\ "s1" \notin DOMAIN read_sessions(cloc[c].files)
        /\ cloc[c].outcome.ret.v = "False"
        /\ cloc[d].calls + cloc[c].calls = 2

(***************************************************************************)
(* The store methods on a sessions file the store did not write.           *)
(***************************************************************************)

\* A dict without some of its keys.
Without(data, keys) == [k \in DOMAIN data \ keys |-> data[k]]

\* The record of a session as to_dict writes it.
GoodRecord == to_dict(AgentSession("s1", "/ws", 0))

\* Records from_dict does not accept: a required key missing, an unknown
\* status, a timestamp fromisoformat rejects.
BadRecords ==
    {Without(GoodRecord, {"workspace_root"}),
     Without(GoodRecord, {"last_activity"}),
     [GoodRecord EXCEPT !.status = "paused"],
     [GoodRecord EXCEPT !.started_at = [text |-> "yesterday"]]}

\* The sessions file: missing, a good one, a text cut short, a JSON list, and
\* a mapping with one record from_dict does not accept.
MalformedFiles ==
    {File(<<Token("{", "", NoDict), Token("entry", "s1", GoodRecord)>>),
     File(<<Token("[", "", NoDict), Token("]", "", NoDict)>>)}
    \cup {File(<<Token("{", "", NoDict), Token("entry", "s1", d),
                 Token("}", "", NoDict)>>) : d \in BadRecords}

\* The sessions file of a version that wrote no "state": one record, of
\* each status.
LegacyFiles ==
    {File(dump([sid \in {"s1"} |->
                  [Without(GoodRecord, {"state"}) EXCEPT !.status = status]])) :
        status \in SessionStatusValues}

MalformedInit ==
    /\ sm = [phase |-> "off"]
    /\ now = 1
    /\ \E f \in {NoFile, File(dump([sid \in {"s1"} |-> GoodRecord]))}
                 \cup MalformedFiles \cup LegacyFiles :
          fs = [NoFiles EXCEPT !["sessions.json"] = f]
    /\ lock = [c \in Callers |-> "none"]
    /\ cpc = [c \in Callers |-> "idle"]
    /\ cloc = [c \in Callers |-> NoStoreCall]
    /\ store = <<>>
    /\ config = <<>>
    /\ spawned = <<>>

SpecMalformed == MalformedInit /\ [][StoreNext]_vars

\* The callers whose method has read a sessions file that is missing or
\* that MalformedFiles holds.
ReadMalformed ==
    {c \in Callers :
        /\ cpc[c] \in {"store_write", "store_unlock"}
        /\ \/ ~cloc[c].files["sessions.json"].exists
           \/ cloc[c].files["sessions.json"] \in MalformedFiles}

\* C21: a store method that reads a sessions file that is missing or
\* malformed in any way raises nothing and sees the empty collection: a
\* look-up finds nothing, a listing is empty, and what a write writes holds
\* nothing of the file.
C21_MalformedReadsEmpty ==
    \A c \in ReadMalformed :
        /\ cloc[c].outcome.ret # Raised
        /\ cloc[c].outcome.ret.session = NoSession
        /\ cloc[c].outcome.ret.list = <<>>
        /\ cloc[c].outcome.write =>
              DOMAIN cloc[c].outcome.sessions \subseteq {cloc[c].session.session_id}

\* The sessions a store method has returned to its caller.
Obtained(c) ==
    IF cpc[c] # "store_unlock" THEN {}
    ELSE {cloc[c].outcome.ret.sessions[i] : i \in DOMAIN cloc[c].outcome.ret.sessions}
         \cup (IF cloc[c].outcome.ret.v = "session"
               THEN {cloc[c].outcome.ret.session} ELSE {})

\* C22: the state of every session obtained from the store is one of the
\* eight lifecycle states, whatever file the store reads, the files of
\* records without a state field included.
C22_ObtainedStateIsLifecycleState ==
    \A c \in Callers : \A session \in Obtained(c) : session.state \in SessionState


(***************************************************************************)
(* process_event called again and again on one session.                    *)
(***************************************************************************)

MaxEvents == 4

SeqEvents == {"session_start", "turn_end", "evaluate", "error"}

\* The session starts Idle, with every value of the fields the guards read.
SeqInit ==
    /\ \E s \in {x \in SMSessions : /\ x.state = IDLE
                                    /\ x.review_iteration = 0
                                    /\ x.max_review_iterations = MaxReviewIterations} :
          sm = [phase |-> "seq", input |-> s, events |-> <<>>,
                session |-> s, results |-> <<>>]
    /\ fs = <<>> /\ lock = <<>> /\ cpc = <<>> /\ cloc = <<>> /\ now = 0
    /\ store = <<>> /\ config = <<>> /\ spawned = <<>>

\* result = state_machine.process_event(session, event), on the session the
\* call before left.
SeqProcessEvent(event) ==
    /\ UNCHANGED <<fs, lock, cpc, cloc, now, store, config, spawned>>
    /\ Len(sm.events) < MaxEvents
    /\ LET r == process_event(sm.session, event) IN
       sm' = [sm EXCEPT !.events = Append(@, event),
                        !.session = r.session,
                        !.results = Append(@, [success |-> r.success,
                                               old_state |-> r.old_state,
                                               new_state |-> r.new_state])]

SeqNext == \E event \in SeqEvents : SeqProcessEvent(event)

SpecSeq == SeqInit /\ [][SeqNext]_vars

TurnEvents == <<"session_start", "turn_end", "evaluate", "evaluate">>

TurnStates == <<ACTIVE, TURN_COMPLETE, READY_FOR_LOOP, IDLE>>

\* The calls so far are the first calls of the turn of a session with no
\* changed files, review disabled and loop disabled.
InPlainTurn ==
    /\ sm.input.files_changed = <<>>
    /\ ~sm.input.review_enabled
    /\ ~sm.input.loop_enabled
    /\ Len(sm.events) <= Len(TurnEvents)
    /\ sm.events = SubSeq(TurnEvents, 1, Len(sm.events))

\* C23: from Idle, with no changed files, review disabled and loop disabled,
\* the events session_start, turn_end, evaluate, evaluate each succeed, and
\* the session goes through Active, TurnComplete, ReadyForLoop and Idle, each
\* call starting in the state the call before reached.
C23_PlainTurnReturnsToIdle ==
    InPlainTurn =>
        \A i \in DOMAIN sm.results :
            /\ sm.results[i].success
            /\ sm.results[i].new_state = TurnStates[i]
            /\ sm.results[i].old_state = IF i = 1 THEN IDLE ELSE TurnStates[i - 1]
            /\ i = Len(sm.results) =>
                  /\ sm.session.state = TurnStates[i]
                  /\ sm.session.status = from_state(TurnStates[i])

\* C23's case: the four calls made, the session back in Idle.
C23_Witness ==
    /\ InPlainTurn
    /\ sm.events = TurnEvents
    /\ sm.session.state = IDLE
    /\ sm.input.in_review_cycle

\* C24: in the default table, for every value of the session's fields:
\* session_start succeeds exactly from Idle and leads to Active; turn_end
\* exactly from Active, whatever in_review_cycle, and leads to TurnComplete;
\* error exactly from Active, UnderReview and LoopPrompting and leads to
\* Error; from Error exactly reset succeeds and leads to Idle; force_idle
\* succeeds exactly from TurnComplete, ReviewPending and ReadyForLoop and
\* leads to Idle; spawn_reviewer, feedback_sent and prompt_sent succeed
\* exactly from ReviewPending, UnderReview and LoopPrompting and lead to
\* UnderReview, Active and Active.
C24_UnguardedEvents ==
    sm.phase = "returned" =>
        LET from == sm.input.state
            event == sm.event
            ok == sm.result.success
            to == sm.session.state
            Only(states, target) ==
                /\ ok <=> from \in states
                /\ ok => to = target /\ sm.result.new_state = target
                /\ ~ok => to = from
        IN  /\ event = "session_start" => Only({IDLE}, ACTIVE)
            /\ event = "turn_end" => Only({ACTIVE}, TURN_COMPLETE)
            /\ event = "error" => Only({ACTIVE, UNDER_REVIEW, LOOP_PROMPTING}, ERROR)
            /\ event = "reset" => Only({ERROR}, IDLE)
            /\ from = ERROR => (ok <=> event = "reset")
            /\ event = "force_idle" =>
                  Only({TURN_COMPLETE, REVIEW_PENDING, READY_FOR_LOOP}, IDLE)
            /\ event = "spawn_reviewer" => Only({REVIEW_PENDING}, UNDER_REVIEW)
            /\ event = "feedback_sent" => Only({UNDER_REVIEW}, ACTIVE)
            /\ event = "prompt_sent" => Only({LOOP_PROMPTING}, ACTIVE)

\* C24's case: turn_end inside a review cycle with review disabled.
C24_Witness ==
    /\ sm.phase = "returned"
    /\ sm.event = "turn_end"
    /\ sm.input.state = ACTIVE
    /\ sm.input.in_review_cycle
    /\ ~sm.input.review_enabled
    /\ sm.session.state = TURN_COMPLETE


\* C27: is_busy is true exactly for Active, UnderReview and LoopPrompting;
\* to_simple_status and SessionStatus.from_state give the same status for
\* each of the eight states: active for the busy ones, stopped for Error,
\* idle for the others; and the status the state setter stores is that one.
C27_StatusOfState ==
    \A session \in {sm.input} \cup (IF sm.phase = "returned" THEN {sm.session} ELSE {}) :
        LET state == session.state
            busy == {ACTIVE, UNDER_REVIEW, LOOP_PROMPTING}
        IN  /\ state \in SessionState
            /\ is_busy(state) <=> state \in busy
            /\ to_simple_status(state) = from_state(state)
            /\ from_state(state) = (IF state \in busy THEN "active"
                                    ELSE IF state = ERROR THEN "stopped"
                                    ELSE "idle")
            /\ session.status = to_simple_status(state)

\* C27's case: a transition has set the state to Error.
C27_Witness ==
    /\ sm.phase = "returned"
    /\ sm.result.success
    /\ sm.session.state = ERROR
    /\ sm.session.status = "stopped"
    /\ sm.input.state = LOOP_PROMPTING


(***************************************************************************)
(* The dashboard messages of the store: add_dashboard_message and          *)
(* get_and_clear_dashboard_messages called one after the other.  sm.log    *)
(* holds the calls made and what each returned; the n-th call adds the     *)
(* message n.                                                              *)
(***************************************************************************)

MaxDashCalls == 5

DashIds == StoreIds \cup {"s3"}

\* The store holds the sessions of StoreIds, nothing pending.
DashInit ==
    /\ sm = [phase |-> "dash", log |-> <<>>]
    /\ store = [sid \in StoreIds |-> AgentSession(sid, "/ws", 0)]
    /\ now = 1
    /\ fs = <<>> /\ lock = <<>> /\ config = <<>> /\ spawned = <<>>
    /\ cpc = [p \in Callers |-> "idle"]
    /\ cloc = [p \in Callers |-> NoCall]

\* One call recorded: the method, the id, the message added and the value
\* returned.
DashCall(op, sid, message, ret) == [op |-> op, sid |-> sid, message |-> message, ret |-> ret]

\* store.add_dashboard_message(session_id, message)
DashAdd(sid) ==
    /\ Len(sm.log) < MaxDashCalls
    /\ LET message == Len(sm.log) + 1
           outcome == SessionStore_add_dashboard_message(store, sid, message)
       IN  /\ store' = IF outcome.write THEN outcome.sessions ELSE store
           /\ sm' = [sm EXCEPT !.log = Append(@, DashCall("add", sid, message, outcome.ret))]
    /\ UNCHANGED <<fs, lock, cpc, cloc, now, config, spawned>>

\* messages = store.get_and_clear_dashboard_messages(session_id)
DashDrain(sid) ==
    /\ Len(sm.log) < MaxDashCalls
    /\ LET outcome == SessionStore_get_and_clear_dashboard_messages(store, sid) IN
       /\ store' = IF outcome.write THEN outcome.sessions ELSE store
       /\ sm' = [sm EXCEPT !.log = Append(@, DashCall("drain", sid, 0, outcome.ret))]
    /\ UNCHANGED <<fs, lock, cpc, cloc, now, config, spawned>>

DashNext == \E sid \in DashIds : DashAdd(sid) \/ DashDrain(sid)

SpecDash == DashInit /\ [][DashNext]_vars

\* The messages added to a session, in the order added, by the calls of
\* log that returned True.
RECURSIVE AddedTo(_, _)
AddedTo(log, sid) ==
    IF log = <<>> THEN <<>>
    ELSE LET call == log[Len(log)]
             before == AddedTo(SubSeq(log, 1, Len(log) - 1), sid)
         IN  IF call.op = "add" /\ call.sid = sid /\ call.ret.v = "True"
             THEN Append(before, call.message) ELSE before

\* The lists the drains of a session returned, one after the other.
RECURSIVE DrainedFrom(_, _)
DrainedFrom(log, sid) ==
    IF log = <<>> THEN <<>>
    ELSE LET call == log[Len(log)]
             before == DrainedFrom(SubSeq(log, 1, Len(log) - 1), sid)
         IN  IF call.op = "drain" /\ call.sid = sid
             THEN before \o call.ret.list ELSE before

\* C25: get_and_clear_dashboard_messages returns the pending messages in the
\* order added and leaves none pending: a drain that follows a drain of the
\* same session returns the empty list, and at any time the messages the
\* drains of a session returned, followed by the pending ones, are the
\* messages added to it, each once and in the order added.
C25_DrainedOnce ==
    /\ \A sid \in DOMAIN store :
          DrainedFrom(sm.log, sid) \o store[sid].pending_dashboard_messages
              = AddedTo(sm.log, sid)
    /\ \A i \in DOMAIN sm.log :
          sm.log[i].op = "drain" =>
              /\ i = Len(sm.log) /\ sm.log[i].sid \in DOMAIN store =>
                    store[sm.log[i].sid].pending_dashboard_messages = <<>>
              /\ i > 1 /\ sm.log[i - 1].op = "drain" /\ sm.log[i - 1].sid = sm.log[i].sid =>
                    sm.log[i].ret.list = <<>>
              /\ sm.log[i].sid \notin DOMAIN store => sm.log[i].ret.list = <<>>

\* C25's case: two messages added, drained together in that order, and the
\* next drain empty.
C25_Witness ==
    /\ Len(sm.log) = 4
    /\ sm.log[1].op = "add" /\ sm.log[2].op = "add"
    /\ sm.log[3].op = "drain" /\ sm.log[3].ret.list = <<1, 2>>
    /\ sm.log[4].op = "drain" /\ sm.log[4].ret.list = <<>>
    /\ sm.log[4].sid = sm.log[3].sid


(***************************************************************************)
(* hooks/session_start.py over the store, with the dashboard server adding *)
(* dashboard messages at any time.  sm.log holds the messages added and    *)
(* the lists the hook runs were given.                                     *)
(***************************************************************************)

\* The session the if branch upserts, the pid left as it was read.
start_existing_keep_pid(existing, parent_pid) ==
    process_event(existing, "session_start").session

\* The if branch: process_event(existing, "session_start"), its result only
\* logged, and existing.agent_pid = parent_pid.
start_existing(existing, parent_pid) ==
    [process_event(existing, "session_start").session EXCEPT !.agent_pid = <<parent_pid>>]

\* The else branch: the new session, process_event(session, "session_start")
\* and the pending initial prompt, "" when there is none.
start_new(session_id, workspace_root, parent_pid, pending_prompt, t) ==
    LET session == [AgentSession(session_id, workspace_root, t) EXCEPT
                       !.agent_pid = <<parent_pid>>]
        started == process_event(session, "session_start").session
    IN  IF workspace_root # "" /\ pending_prompt # ""
        THEN [started EXCEPT !.messages =
                 Append(@, SessionMessage("user", Prompt(pending_prompt)))]
        ELSE started

\* What the hook prints: the dashboard messages under their heading, or {}.
start_output(dashboard_messages) ==
    IF dashboard_messages # <<>>
    THEN Output("print", "## Messages from Dashboard", dashboard_messages)
    ELSE Output("print", "{}", <<>>)

ParentPids == {7, 8}

\* existing = store.get_session(session_id)
StartHook(p, sid, workspace_root, parent_pid, pending_prompt) ==
    /\ cpc[p] = "idle"
    /\ Len(sm.log) < MaxDashCalls
    /\ LET found == sid \in DOMAIN store
           existing == IF found THEN store[sid] ELSE NoSession
       IN  /\ cloc' = [cloc EXCEPT ![p] =
                         [NoCall EXCEPT !.op = "session_start", !.sid = sid,
                                        !.workspace_root = workspace_root,
                                        !.parent_pid = parent_pid,
                                        !.user_prompt = pending_prompt,
                                        !.existed = found, !.existing = existing]]
           /\ cpc' = [cpc EXCEPT ![p] = IF found THEN "start_existing" ELSE "start_create"]
    /\ UNCHANGED <<sm, fs, lock, now, store, config, spawned>>

\* The if branch up to store.upsert_session(existing)
StartExisting(p) ==
    /\ cpc[p] = "start_existing"
    /\ store' = upsert_session(store, start_existing(cloc[p].existing, cloc[p].parent_pid))
    /\ cpc' = [cpc EXCEPT ![p] = "start_drain"]
    /\ UNCHANGED <<sm, fs, lock, cloc, now, config, spawned>>

\* dashboard_messages = store.get_and_clear_dashboard_messages(session_id),
\* and the print
StartDrain(p) ==
    /\ cpc[p] = "start_drain"
    /\ LET outcome == SessionStore_get_and_clear_dashboard_messages(store, cloc[p].sid) IN
       /\ store' = IF outcome.write THEN outcome.sessions ELSE store
       /\ sm' = [sm EXCEPT !.log = Append(@, DashCall("drain", cloc[p].sid, 0, outcome.ret))]
       /\ cloc' = [cloc EXCEPT ![p].list = outcome.ret.list,
                               ![p].out = <<start_output(outcome.ret.list)>>]
    /\ cpc' = [cpc EXCEPT ![p] = "done"]
    /\ UNCHANGED <<fs, lock, now, config, spawned>>

\* The else branch up to store.upsert_session(session), and the print
StartCreate(p) ==
    /\ cpc[p] = "start_create"
    /\ store' = upsert_session(store,
                    start_new(cloc[p].sid, cloc[p].workspace_root, cloc[p].parent_pid,
                              cloc[p].user_prompt, now))
    /\ cloc' = [cloc EXCEPT ![p].out = <<start_output(<<>>)>>]
    /\ cpc' = [cpc EXCEPT ![p] = "done"]
    /\ UNCHANGED <<sm, fs, lock, now, config, spawned>>

\* No session, or the session s1 in any state, nothing pending.
StartInit ==
    /\ sm = [phase |-> "dash", log |-> <<>>]
    /\ store \in {<<>>} \cup
                 {[sid \in {"s1"} |-> set_state(AgentSession("s1", "/ws", 0), state)] :
                     state \in SessionState}
    /\ now = 1
    /\ fs = <<>> /\ lock = <<>> /\ config = <<>> /\ spawned = <<>>
    /\ cpc = [p \in Callers |-> "idle"]
    /\ cloc = [p \in Callers |-> NoCall]

StartNext ==
    \/ \E workspace_root \in {"", "/ws"}, parent_pid \in ParentPids,
          pending_prompt \in UserPrompts :
          StartHook(Hook, "s1", workspace_root, parent_pid, pending_prompt)
    \/ StartExisting(Hook)
    \/ StartDrain(Hook)
    \/ StartCreate(Hook)
    \/ Return(Hook)
    \/ DashAdd("s1")

SpecStart == StartInit /\ [][StartNext]_vars

\* A session_start hook run at its end.
StartDone(p) == cpc[p] = "done" /\ cloc[p].op = "session_start"

\* C26: at the end of a session_start hook run the session of its
\* conversation id is stored with the hook's parent pid as agent_pid; it is
\* Active if no session existed or if it existed in Idle; if it existed in
\* another state the failed transition stops nothing: the state is the one
\* found, the pid is stored and the hook goes on to its output.
C26_SessionStartRegisters ==
    \A p \in Hooks :
        StartDone(p) =>
            /\ cloc[p].sid \in DOMAIN store
            /\ LET session == store[cloc[p].sid] IN
               /\ session.session_id = cloc[p].sid
               /\ session.agent_pid = <<cloc[p].parent_pid>>
               /\ ~cloc[p].existed => session.state = ACTIVE
               /\ cloc[p].existed /\ cloc[p].existing.state = IDLE => session.state = ACTIVE
               /\ cloc[p].existed /\ cloc[p].existing.state # IDLE =>
                     session.state = cloc[p].existing.state
               /\ session.status = from_state(session.state)
               /\ Len(cloc[p].out) = 1

\* C26's case: the session existed outside Idle with another pid.
C26_Witness ==
    /\ StartDone(Hook)
    /\ cloc[Hook].existed
    /\ cloc[Hook].existing.state = REVIEW_PENDING
    /\ cloc[Hook].existing.agent_pid = <<7>>
    /\ store["s1"].agent_pid = <<8>>
    /\ store["s1"].state = REVIEW_PENDING

\* C30: every dashboard message added is injected into the output of
\* exactly one later session_start hook run of the session, in the order
\* added, whatever the interleaving: the lists the runs were given, followed
\* by what is pending, are the messages added.
C30_InjectedOnce ==
    \A sid \in DOMAIN store :
        DrainedFrom(sm.log, sid) \o store[sid].pending_dashboard_messages
            = AddedTo(sm.log, sid)


(***************************************************************************)
(* get_all_sessions after upserts in any order.                            *)
(***************************************************************************)

ListIds == {"s1", "s2", "s3"}

ListTimes == 0..2

ListInit ==
    /\ sm = [phase |-> "upserted", list |-> <<>>]
    /\ store = <<>>
    /\ now = 0
    /\ fs = <<>> /\ lock = <<>> /\ config = <<>> /\ spawned = <<>>
    /\ cpc = [p \in Callers |-> "idle"]
    /\ cloc = [p \in Callers |-> NoCall]

\* store.upsert_session(session), the session last active at t
ListUpsert(sid, t) ==
    /\ store' = upsert_session(store, AgentSession(sid, "/ws", t))
    /\ sm' = [phase |-> "upserted", list |-> <<>>]
    /\ UNCHANGED <<fs, lock, cpc, cloc, now, config, spawned>>

\* sessions = store.get_all_sessions()
ListGetAll ==
    /\ \E order \in get_all_sessions(store) :
          sm' = [phase |-> "listed",
                 list |-> SessionStore_get_all_sessions(store, order).ret.sessions]
    /\ UNCHANGED <<fs, lock, cpc, cloc, now, store, config, spawned>>

ListNext ==
    \/ \E sid \in ListIds, t \in ListTimes : ListUpsert(sid, t)
    \/ ListGetAll

SpecList == ListInit /\ [][ListNext]_vars

\* C28: get_all_sessions returns every stored session exactly once, the
\* most recently active first, whatever the sessions stored and the order of
\* the upserts that stored them.
C28_AllSessionsByActivity ==
    sm.phase = "listed" =>
        /\ Len(sm.list) = Cardinality(DOMAIN store)
        /\ \A sid \in DOMAIN store :
              \E i \in DOMAIN sm.list :
                  /\ sm.list[i] = store[sid]
                  /\ \A j \in DOMAIN sm.list : sm.list[j].session_id = sid => j = i
        /\ \A i, j \in DOMAIN sm.list :
              i < j => sm.list[i].last_activity >= sm.list[j].last_activity

\* C28's case: three sessions, the one upserted last neither the most nor
\* the least recent.
C28_Witness ==
    /\ sm.phase = "listed"
    /\ Len(sm.list) = 3
    /\ sm.list[1].session_id = "s2" /\ sm.list[1].last_activity = 2
    /\ sm.list[2].session_id = "s3" /\ sm.list[2].last_activity = 1
    /\ sm.list[3].session_id = "s1" /\ sm.list[3].last_activity = 0


(***************************************************************************)
(* hooks/tool_use.py over the store, one run at a time.                    *)
(***************************************************************************)

\* tool_msg: the name of the tool, and the preview of its input when it has
\* one.
tool_msg(tool_name, has_input) == Content("tool", IF has_input THEN 1 ELSE 0, tool_name)

ToolNames == {"view", "bash"}

\* session = store.get_session(session_id); if session: the tool name
\* appended to session.tools_used when it is not there.
ToolHook(p, hook_type, sid, tool_name, has_input) ==
    /\ cpc[p] = "idle"
    /\ LET found == sid \in DOMAIN store
           existing == IF found THEN store[sid] ELSE NoSession
           session == IF \E i \in DOMAIN existing.tools_used :
                             existing.tools_used[i] = tool_name
                      THEN existing
                      ELSE [existing EXCEPT !.tools_used = Append(@, tool_name)]
       IN  /\ Len(existing.messages) < MaxLog
           /\ cloc' = [cloc EXCEPT ![p] =
                         [NoCall EXCEPT !.op = hook_type, !.sid = sid,
                                        !.tool_name = tool_name,
                                        !.content = tool_msg(tool_name, has_input),
                                        !.existed = found, !.existing = existing,
                                        !.session = session]]
           /\ cpc' = [cpc EXCEPT ![p] =
                         IF ~found THEN "done"
                         ELSE IF hook_type = "PostToolUse" THEN "tool_message"
                         ELSE "tool_upsert"]
    /\ UNCHANGED <<sm, fs, lock, now, store, config, spawned>>

\* store.add_message(session_id, SessionMessage(role="system", content=tool_msg))
ToolAddMessage(p) ==
    /\ cpc[p] = "tool_message"
    /\ store' = add_message(store, cloc[p].sid,
                            SessionMessage("system", cloc[p].content), now)
    /\ cpc' = [cpc EXCEPT ![p] = "tool_upsert"]
    /\ UNCHANGED <<sm, fs, lock, cloc, now, config, spawned>>

\* session.last_activity = datetime.now(timezone.utc); store.upsert_session(session)
ToolUpsert(p) ==
    /\ cpc[p] = "tool_upsert"
    /\ store' = upsert_session(store, [cloc[p].session EXCEPT !.last_activity = now])
    /\ cpc' = [cpc EXCEPT ![p] = "done"]
    /\ UNCHANGED <<sm, fs, lock, cloc, now, config, spawned>>

\* No session, or the session s1 with and without a message and a tool.
ToolInit ==
    /\ sm = [phase |-> "off"]
    /\ store \in {<<>>} \cup
                 {[sid \in {"s1"} |->
                     [set_state(AgentSession("s1", "/ws", 0), state) EXCEPT
                         !.messages = messages, !.tools_used = tools_used]] :
                     state \in {IDLE, ACTIVE},
                     messages \in {<<>>, <<SessionMessage("user", Prompt("go"))>>},
                     tools_used \in {<<>>, <<"view">>}}
    /\ now \in 1..2
    /\ fs = <<>> /\ lock = <<>> /\ config = <<>> /\ spawned = <<>>
    /\ cpc = [p \in Callers |-> "idle"]
    /\ cloc = [p \in Callers |-> NoCall]

ToolNext ==
    \/ \E hook_type \in {"PreToolUse", "PostToolUse"}, tool_name \in ToolNames,
          has_input \in BOOLEAN :
          ToolHook(Hook, hook_type, "s1", tool_name, has_input)
    \/ ToolAddMessage(Hook)
    \/ ToolUpsert(Hook)
    \/ Return(Hook)

SpecTool == ToolInit /\ [][ToolNext]_vars

\* C29: at the end of a tool hook run for an existing session, the tool
\* name is exactly once in the persisted tools_used; after a PostToolUse run
\* the persisted log is the log found and one more entry, the system message
\* naming the tool; after a PreToolUse run the log is the log found.
C29_PostToolUseLogsTool ==
    \A p \in Hooks :
        (/\ cpc[p] = "done"
         /\ cloc[p].op \in {"PreToolUse", "PostToolUse"}
         /\ cloc[p].existed)
        => LET session == store[cloc[p].sid]
               found == cloc[p].existing.messages
           IN  /\ Occurrences(cloc[p].tool_name, session.tools_used) = 1
               /\ cloc[p].op = "PostToolUse" =>
                     session.messages =
                         Append(found, SessionMessage("system", cloc[p].content))
               /\ cloc[p].op = "PreToolUse" => session.messages = found


(***************************************************************************)
(* The default table: its guarded events, the order of its entries, its    *)
(* dead ends, and can_transition.                                          *)
(***************************************************************************)

\* C34: from TurnComplete, evaluate leads to ReviewPending exactly when
\* files_changed is non-empty and review_enabled is true, and to
\* ReadyForLoop otherwise; from TurnComplete, check_review leads to
\* ReadyForLoop exactly when review_iteration >= max_review_iterations or
\* review_satisfied is set, and to ReviewPending otherwise; from
\* ReadyForLoop, evaluate leads to LoopPrompting exactly when loop_enabled
\* is true, and to Idle otherwise; none of the three fails.
C34_GuardedEventsRoute ==
    sm.phase = "returned" =>
        LET s == sm.input
            to == sm.session.state
        IN  /\ s.state = TURN_COMPLETE /\ sm.event = "evaluate" =>
                  /\ sm.result.success
                  /\ to = IF s.files_changed # <<>> /\ s.review_enabled
                          THEN REVIEW_PENDING ELSE READY_FOR_LOOP
            /\ s.state = TURN_COMPLETE /\ sm.event = "check_review" =>
                  /\ sm.result.success
                  /\ to = IF \/ s.review_iteration >= s.max_review_iterations
                             \/ s.review_satisfied
                          THEN READY_FOR_LOOP ELSE REVIEW_PENDING
            /\ s.state = READY_FOR_LOOP /\ sm.event = "evaluate" =>
                  /\ sm.result.success
                  /\ to = IF s.loop_enabled THEN LOOP_PROMPTING ELSE IDLE
            /\ sm.result.success => sm.result.new_state = to

\* C34's case: files changed, review disabled.
C34_Witness ==
    /\ sm.phase = "returned"
    /\ sm.input.state = TURN_COMPLETE
    /\ sm.event = "evaluate"
    /\ sm.input.files_changed # <<>>
    /\ ~sm.input.review_enabled
    /\ sm.session.state = READY_FOR_LOOP

\* C35: for every state, event and value of the fields at most one entry
\* of the table applies, so the entry process_event executes is the only one
\* a scan in any other order could execute: the order of the entries never
\* decides the result.
C35_OrderNeverDecides ==
    sm.phase = "returned" =>
        LET applying == {i \in DOMAIN default_transitions :
                            EntryApplies(i, sm.input, sm.event)}
        IN  /\ Cardinality(applying) <= 1
            /\ \A i \in applying :
                  /\ sm.result.success
                  /\ sm.result.transition = i
                  /\ sm.session = set_state(sm.input, default_transitions[i].to_state)
            /\ applying = {} => ~sm.result.success

\* C35's case: turn_end from Active inside a review cycle, where two entries
\* match state and event and the second one applies.
C35_Witness ==
    /\ sm.phase = "returned"
    /\ sm.input.state = ACTIVE
    /\ sm.event = "turn_end"
    /\ sm.input.in_review_cycle
    /\ sm.result.transition = 3

MaxPath == 3

\* Some sequence of at most n events, each succeeding, brings the session
\* to Idle.
RECURSIVE ReachesIdle(_, _)
ReachesIdle(session, n) ==
    \/ session.state = IDLE
    \/ /\ n > 0
       /\ \E event \in Events :
             LET r == process_event(session, event) IN
             r.success /\ ReachesIdle(r.session, n - 1)

\* C36: in every state, for every value of the fields, some event succeeds,
\* and some finite sequence of events brings the session to Idle.
C36_NoDeadEnd ==
    \A session \in {sm.input, sm.session} :
        /\ \E event \in Events : process_event(session, event).success
        /\ ReachesIdle(session, MaxPath)

\* C36's case: a session that has reached Error, two events away from Idle
\* through no state but Error.
C36_Witness ==
    /\ sm.phase = "returned"
    /\ sm.session.state = ERROR
    /\ ReachesIdle(sm.session, 1)
    /\ sm.input.state = UNDER_REVIEW
    /\ ~ReachesIdle(sm.input, 1)

\* C39: can_transition(session, event) is true exactly when
\* process_event(session, event) succeeds on the same session, and it leaves
\* every field of the session as it was.
C39_CanTransitionAgrees ==
    sm.phase = "checked" =>
        /\ sm.can <=> process_event(sm.input, sm.event).success
        /\ sm.session = sm.input

\* C39's case: can_transition true on a guarded entry.
C39_Witness ==
    /\ sm.phase = "checked"
    /\ sm.can
    /\ sm.input.state = READY_FOR_LOOP
    /\ sm.event = "evaluate"
    /\ sm.input.loop_enabled


(***************************************************************************)
(* What a write of the store leaves alone.                                 *)
(***************************************************************************)

\* The fields of the target record a method is about.
FieldsOf(method) ==
    CASE method = "update_session_status" -> {"status", "current_task", "last_activity"}
      [] method = "add_message" -> {"messages", "last_activity"}
      [] method = "add_dashboard_message" -> {"pending_dashboard_messages"}
      [] method = "get_and_clear_dashboard_messages" -> {"pending_dashboard_messages"}
      [] method = "update_session_pid" -> {"agent_pid", "last_activity"}
      [] OTHER -> {}

\* The records of the ids other than sid are the same before and after, and
\* for a method that is neither upsert nor delete the record of sid differs
\* in the fields of the method only.
Framed(method, sid, before, after) ==
    /\ DOMAIN before \ {sid} = DOMAIN after \ {sid}
    /\ \A other \in DOMAIN before \ {sid} : after[other] = before[other]
    /\ method \notin {"upsert_session", "delete_session"} =>
          /\ sid \in DOMAIN before /\ sid \in DOMAIN after
          /\ \A field \in DOMAIN before[sid] \ FieldsOf(method) :
                after[sid][field] = before[sid][field]

\* C38: every write of the store for one session id leaves the persisted
\* records of all other ids as they were, and a write other than upsert and
\* delete changes in the target record only the fields it is about
\* (last_activity also for update_session_status, add_message and
\* update_session_pid).
C38_WritesAreFramed ==
    [][\A c \in Callers :
          cpc[c] = "store_write" /\ cpc'[c] = "store_unlock" =>
              Framed(cloc[c].op, cloc[c].sid, read_sessions(fs), read_sessions(fs'))]_vars

\* C38's case: add_message has written the record of s1 while a record of
\* s2 is stored.
C38_Witness ==
    \E c \in Callers :
        /\ cpc[c] = "store_unlock"
        /\ cloc[c].op = "add_message"
        /\ cloc[c].outcome.write
        /\ DOMAIN read_sessions(fs) = {"s1", "s2"}
        /\ Len(read_sessions(fs)["s1"].messages) = 1


(***************************************************************************)
(* The lock of the store: one acquisition per method, released on every    *)
(* way out.                                                                *)
(***************************************************************************)

\* The steps of a caller inside a method; the scheduler runs a process that
\* holds the lock.
StoreStep(c) == StoreRead(c) \/ StoreWrite(c) \/ StoreUnlock(c)

\* A sessions file the methods read, and one on which _read_sessions raises.
LockInit ==
    /\ sm = [phase |-> "off"]
    /\ now = 1
    /\ \E d \in {GoodRecord, [GoodRecord EXCEPT !.status = "paused"]} :
          fs = [NoFiles EXCEPT !["sessions.json"] = File(dump([sid \in {"s1"} |-> d]))]
    /\ lock = [c \in Callers |-> "none"]
    /\ cpc = [c \in Callers |-> "idle"]
    /\ cloc = [c \in Callers |-> NoStoreCall]
    /\ store = <<>>
    /\ config = <<>>
    /\ spawned = <<>>

\* Every method, on the one id.
LockNext ==
    \E c \in Callers :
        \/ \E method \in StoreMethods : StoreFlock(c, method, "s1")
        \/ StoreStep(c)

SpecLock == LockInit /\ [][LockNext]_vars

SpecLockFair == SpecLock /\ \A c \in Callers : WF_vars(StoreStep(c))

\* A caller holds the lock exactly while it is inside a method, in the mode
\* of the method; it cannot take it again while it holds it; whoever is
\* inside a method can take its next step; an exclusive holder is alone.
LockOncePerMethod ==
    /\ \A c \in Callers :
          /\ cpc[c] = "idle" <=> lock[c] = "none"
          /\ cpc[c] # "idle" =>
                /\ lock[c] = file_lock(cloc[c].op)
                /\ ENABLED StoreStep(c)
          /\ lock[c] # "none" =>
                ~ENABLED (\E method \in StoreMethods : StoreFlock(c, method, "s1"))
    /\ \A c, d \in Callers : c # d /\ lock[c] = "ex" => lock[d] = "none"

\* C40: every store method takes the lock once, at its start and never
\* while its caller holds it, and releases it on every way out, an exception
\* inside the critical section included; no callers block each other for
\* ever, and every caller that has been granted the lock leaves its method
\* with the lock released.
C40_LockAlwaysReleased ==
    /\ []LockOncePerMethod
    /\ \A c \in Callers : (cpc[c] # "idle") ~> (cpc[c] = "idle" /\ lock[c] = "none")

\* C40's case: a method left by an exception of _read_sessions, about to
\* release the lock it holds.
C40_Witness ==
    \E c \in Callers :
        /\ cpc[c] = "store_unlock"
        /\ cloc[c].outcome.ret = Raised
        /\ lock[c] = "ex"
        /\ \A d \in Callers \ {c} : cpc[d] = "idle"


(***************************************************************************)
(* A pause of the loop against hooks and sweeps that are under way.        *)
(***************************************************************************)

\* C31: once pause_loop has returned for a session, and as long as the loop
\* is not enabled again (nothing enables it here), the persisted
\* loop_enabled of the session is false, whatever the other callers that
\* loaded the session before the pause do afterwards.
C31_PauseHolds ==
    \A p \in Callers :
        (/\ cpc[p] = "done"
         /\ cloc[p].op = "pause_loop"
         /\ cloc[p].found
         /\ cloc[p].sid \in DOMAIN store)
        => ~store[cloc[p].sid].loop_enabled



\* ---------------------------------------------------------------------
\* A deletion against a hook that is under way.
\* ---------------------------------------------------------------------

\* POST /session/{session_id}/delete: store.delete_session(session_id), 404
\* when it returns False.  sm remembers that a deletion has returned True.
DeleteSession(p, sid) ==
    /\ cpc[p] = "idle"
    /\ LET out == SessionStore_delete_session(store, sid)
       IN  /\ store' = out.sessions
           /\ cloc' = [cloc EXCEPT ![p] =
                         [NoCall EXCEPT !.op = "delete_session", !.sid = sid,
                                        !.found = (out.ret.v = "True")]]
           /\ sm' = IF out.ret.v = "True" THEN [phase |-> "deleted"] ELSE sm
    /\ cpc' = [cpc EXCEPT ![p] = "done"]
    /\ UNCHANGED <<fs, lock, now, config, spawned>>

\* The tool hook, which never creates a session, and the deletion by the
\* dashboard, in any interleaving.
DeleteNext ==
    \/ ToolNext
    \/ DeleteSession(Server, "s1")
    \/ Return(Server)

SpecDelete == ToolInit /\ [][DeleteNext]_vars

\* C32: once delete_session has returned True for the session, and no
\* first contact creates it anew (no step here does), the store holds no
\* session of that id: a caller that loaded it before the deletion and
\* upserts it afterwards does not bring it back.
C32_DeletedStaysDeleted ==
    sm.phase = "deleted" => "s1" \notin DOMAIN store

\* ---------------------------------------------------------------------
\* The store at the moment of a spawn.
\* ---------------------------------------------------------------------

\* The store shows a user message with this content in the session's log.
ShowsUser(sid, content) ==
    /\ sid \in DOMAIN store
    /\ \E i \in DOMAIN store[sid].messages :
          /\ store[sid].messages[i].role = "user"
          /\ store[sid].messages[i].content = content

\* C33: at the moment a caller issues a spawn, the store shows what the
\* caller changed before it: the loop_count it has incremented for a loop
\* continuation, the promoted message with role user for a queued message.
C33_PersistedBeforeSpawn ==
    \A p \in Callers :
        /\ cpc[p] = "stop_spawn_loop" =>
              /\ cloc[p].sid \in DOMAIN store
              /\ store[cloc[p].sid].loop_count = cloc[p].session.loop_count
        /\ cpc[p] \in {"stop_spawn_queued", "pq_spawn"} =>
              ShowsUser(cloc[p].sid, cloc[p].content)

\* ---------------------------------------------------------------------
\* server.py: post_message and queue_message, and the turns the stop hook
\* records after them.
\* ---------------------------------------------------------------------

\* post_message: store.get_session, the 404 and the two 400s
PostMessage(p, sid, message) ==
    /\ cpc[p] = "idle"
    /\ LET found == sid \in DOMAIN store
           session == IF found THEN store[sid] ELSE NoSession
       IN  /\ Len(session.messages) < LogLimit
           /\ cloc' = [cloc EXCEPT ![p] =
                         [NoCall EXCEPT !.op = "post_message", !.sid = sid,
                                        !.user_prompt = message,
                                        !.found = found, !.session = session]]
           /\ cpc' = [cpc EXCEPT ![p] =
                         IF ~found THEN "done"
                         ELSE IF session.conversation_id \in {"", "unknown"} THEN "done"
                         ELSE IF session.workspace_root = "" THEN "done"
                         ELSE "post_add"]
    /\ UNCHANGED <<sm, fs, lock, now, store, config, spawned>>

\* user_msg = SessionMessage(role="user", content=message.strip());
\* store.add_message(session_id, user_msg)
PostAddMessage(p) ==
    /\ cpc[p] = "post_add"
    /\ store' = add_message(store, cloc[p].sid,
                            SessionMessage("user", Prompt(strip(cloc[p].user_prompt))), now)
    /\ cpc' = [cpc EXCEPT ![p] = "post_status"]
    /\ UNCHANGED <<sm, fs, lock, cloc, now, config, spawned>>

\* store.update_session_status(session_id, SessionStatus.ACTIVE);
\* background_tasks.add_task(spawn_auggie_message, ..., message)
PostUpdateStatus(p) ==
    /\ cpc[p] = "post_status"
    /\ store' = update_session_status(store, cloc[p].sid, "active", None, now)
    /\ cloc' = [cloc EXCEPT ![p].out =
                    Append(@, Spawn(cloc[p].session.conversation_id,
                                    Prompt(cloc[p].user_prompt)))]
    /\ cpc' = [cpc EXCEPT ![p] = "done"]
    /\ UNCHANGED <<sm, fs, lock, now, config, spawned>>

\* queue_message: store.get_session, the 404 and the empty message
QueueMessage(p, sid, message) ==
    /\ cpc[p] = "idle"
    /\ LET found == sid \in DOMAIN store
           session == IF found THEN store[sid] ELSE NoSession
       IN  /\ Len(session.messages) < LogLimit
           /\ cloc' = [cloc EXCEPT ![p] =
                         [NoCall EXCEPT !.op = "queue_message", !.sid = sid,
                                        !.user_prompt = message,
                                        !.found = found, !.session = session]]
           /\ cpc' = [cpc EXCEPT ![p] =
                         IF ~found THEN "done"
                         ELSE IF strip(message) = "" THEN "done"
                         ELSE "queue_add"]
    /\ UNCHANGED <<sm, fs, lock, now, store, config, spawned>>

\* queued_msg = SessionMessage(role="queued", content=message.strip());
\* store.add_message(session_id, queued_msg)
QueueAddMessage(p) ==
    /\ cpc[p] = "queue_add"
    /\ store' = add_message(store, cloc[p].sid,
                            SessionMessage("queued", Prompt(strip(cloc[p].user_prompt))), now)
    /\ cpc' = [cpc EXCEPT ![p] = "done"]
    /\ UNCHANGED <<sm, fs, lock, cloc, now, config, spawned>>

\* One idle session with an empty log, the loop off.
TurnInit ==
    /\ sm = [phase |-> "turn"]
    /\ fs = <<>>
    /\ lock = <<>>
    /\ now = 1
    /\ cpc = [c \in Callers |-> "idle"]
    /\ cloc = [c \in Callers |-> NoCall]
    /\ spawned = <<>>
    /\ config = custom_config
    /\ store = [sid \in {"s1"} |-> Stored("s1", IDLE, FALSE, <<>>, 0)]

\* Messages posted and queued on the dashboard and turns recorded by the
\* stop hook, one handler or hook run at a time.
TurnNext ==
    \/ Quiet /\ PostMessage(Server, "s1", " go ")
    \/ PostAddMessage(Server)
    \/ PostUpdateStatus(Server)
    \/ Quiet /\ \E message \in {"q1", " "} : QueueMessage(Server, "s1", message)
    \/ QueueAddMessage(Server)
    \/ Return(Server)
    \/ /\ Quiet
       /\ \E user_prompt \in {"", "go", "q1"}, agent_text \in {0, 1} :
             StopHook(Hook, "s1", user_prompt, agent_text)
    \/ StopAddUser(Hook)
    \/ StopAddAssistant(Hook)
    \/ StopUpdateStatus(Hook)
    \/ StopCheckLoop(Hook)
    \/ StopPromote(Hook)
    \/ StopSpawnQueued(Hook)
    \/ Return(Hook)

SpecTurn == TurnInit /\ [][TurnNext]_vars

\* The log holds a user message with this prompt, wherever it stands.
InLog(session, user_prompt) ==
    \E i \in DOMAIN session.messages :
        /\ session.messages[i].role = "user"
        /\ session.messages[i].content = Prompt(user_prompt)

\* C37: when the stop hook has recorded a turn whose user prompt was in the
\* log it found as a user message, the log is the log found and, after it,
\* the assistant response once when there is one: no second user message,
\* however many messages stand after the first.
C37_NoSecondUserMessage ==
    \A p \in Callers :
        (/\ cpc[p] = "stop_status"
         /\ cloc[p].op = "stop"
         /\ cloc[p].existed
         /\ cloc[p].user_prompt # ""
         /\ InLog(cloc[p].existing, cloc[p].user_prompt))
        => store[cloc[p].sid].messages =
              cloc[p].existing.messages \o
                 (IF cloc[p].agent_text # 0
                  THEN <<SessionMessage("assistant", Text(cloc[p].agent_text))>>
                  ELSE <<>>)
====
